---- MODULE Spec2Model ----
(***************************************************************************)
(* Model of the LicitAI agent gateway's two streamed pipelines:            *)
(*   - CoordinatorAgent.run_tender_analysis / run_document_generation      *)
(*     (services/agente/agents/coordinator.py) with the stage agents they  *)
(*     call (parser.py, generator.py, profile.py),                         *)
(*   - the queue-to-stream adapter of main.py (stream_orchestrator_agentic *)
(*     and generate_docs_endpoint),                                        *)
(*   - the chunk stream of the extraction service (ocr-vlm/main.py).       *)
(*                                                                         *)
(* asyncio is cooperative: a coroutine runs until it suspends.  Every      *)
(* action below is one stretch of a coroutine; stretches are cut finer     *)
(* than the real suspension points, which only adds interleavings.         *)
(*                                                                         *)
(* Strings are sequences of tokens (an f-string is the sequence of its     *)
(* literal parts and interpolated values); an optional value is <<>> or    *)
(* <<v>>.                                                                  *)
(***************************************************************************)
EXTENDS Integers, Sequences, FiniteSets, TLC

\* ------------------------------------------------------------------ bounds
MaxPages == 2
MaxDocs == 2
MaxUpserts == 2

\* --------------------------------------------------------------- constants
max_retries == 3
OcrBase == 20
OcrSpanPct == 65

Invs == {"a", "b"}
WsIds == {"w1", "w2"}
NoInv == "none"

None == <<>>
Some(x) == <<x>>

VARIABLES
  req,        \* req[i]: the HTTP request of invocation i (kind, workspace, file)
  script,     \* script[i]: outcomes of the collaborators fixed for i (<<>> = free)
  task,       \* task[i]: idle | running | returned | raised  (asyncio.Task state)
  taskExc,    \* taskExc[i]: str() of the exception the task ended with
  pc,         \* pc[i]: position of the orchestrator coroutine
  loc,        \* loc[i]: its local variables
  queue,      \* queue[i]: the asyncio.Queue of the invocation
  apc,        \* apc[i]: position of the adapter generator
  delivered,  \* delivered[i]: what the generator has yielded
  produced,   \* produced[i]: every message passed to put_in_queue (history)
  fs,         \* fs[w]: the workspace directory WORKSPACE_DIR/w
  calls,      \* calls[i]: number of requests sent to each collaborator (history)
  lastOcr,    \* lastOcr[i]: outcome of the latest extraction attempt (history)
  db,         \* db[w]: the row of workspace w in the workspace store, or None
  log         \* the requests served by the store and by process_context (history)

vars == <<req, script, task, taskExc, pc, loc, queue, apc, delivered, produced,
          fs, calls, lastOcr, db, log>>

storeVars == <<db, log>>

\* ------------------------------------------------------------------ events
\* One NDJSON line.  A key the code does not put in the object is None.
Event(status, agent, val, msg) ==
  [status |-> status, agent |-> agent, val |-> val, msg |-> msg,
   name |-> None, folder |-> None, docs |-> None, analysis |-> None,
   profile |-> None]

\* BaseAgent.emit_progress
ProgressEvent(agent, v, body) ==
  Event("progress", Some(agent), Some(v), <<"[", agent, "] ">> \o body)

\* the except branch of both pipelines
ErrorEventDropped(e) == <<>>
ErrorEvent(e) == << Event("error", Some("Coordinator"), None, e) >>

\* the adapter's own event for a task that ended with an exception
SynthErrorNone(e) == <<>>
SynthError(e) == << Event("error", None, None, e) >>

IsTerminal(ev) == ev.status \in {"complete", "error"}

\* ------------------------------------------------- extraction service stream

Chunk(status, val, msg, data) ==
  [status |-> status, val |-> val, msg |-> msg, data |-> data]

\* the chunk the service yields for page k of the PDF
\* generate_vlm_progress.  fail = 0: no exception; fail = k in 1..n: the
\* exception is raised while page k is worked on (for a scanned page after its
\* progress chunk was yielded); fail = n+1: PdfReader raises.  An image is one
\* page: fail = 1 is Image.open raising, fail = 2 the inference raising.
VlmStream(file, pages, fail) ==
  LET \* the chunk yielded for page k: info for native text, progress for a scan;
      \* int((i+1)/num_pages*100) for page k = i+1 of n
      VlmPageChunk(k) ==
        IF pages[k] = "digital"
        THEN Chunk("info", None, <<"Pagina ", ToString(k), ": Texto digital">>, <<>>)
        ELSE Chunk("progress", Some((k * 100) \div Len(pages)),
                   <<"Analizando Pagina ", ToString(k)>>, <<>>)
  IN
  LET VlmError == Chunk("error", None, <<"vlm_exception">>, <<>>)
  IN
  LET VlmResults(pages0) ==
        LET PageText(k, kind) == IF kind = "blank" THEN <<>> ELSE <<"page", ToString(k)>>
        IN
        [k \in 1..Len(pages0) |-> [page |-> k, text |-> PageText(k, pages0[k])]]
  IN
  IF file = "pdf"
  THEN LET n == Len(pages)
           first == Chunk("info", None, <<"Archivo recibido">>, <<>>)
           body == [k \in 1..n |-> VlmPageChunk(k)]
       IN IF fail = 0
          THEN <<first>> \o body \o <<Chunk("complete", None, <<>>, VlmResults(pages))>>
          ELSE IF fail = n + 1
          THEN <<first, VlmError>>
          ELSE <<first>> \o SubSeq(body, 1, fail - 1)
               \o (IF pages[fail] = "digital" THEN <<>> ELSE <<body[fail]>>)
               \o <<VlmError>>
  ELSE LET p50 == Chunk("progress", Some(50), <<"Analizando imagen">>, <<>>)
           p100 == Chunk("progress", Some(100), <<"Completado.">>, <<>>)
       IN IF fail = 0
          THEN <<p50, p100, Chunk("complete", None, <<>>, VlmResults(pages))>>
          ELSE IF fail = 1 THEN <<VlmError>> ELSE <<p50, VlmError>>

\* ------------------------------------------------------------ shared helpers
FreeScript ==
  LET Sites == {"persist", "conn", "http", "resp", "extr", "llm", "wa", "bids", "db",
                "dbl"}
  IN
              [s \in Sites |-> None]

\* outcome o of a collaborator is possible for invocation i at this site
Pick(i, site, o) == script[i][site] \in {None, Some(o)}
\* the outcome of connection attempt number loc[i].attempt + 1
ConnPick(i, o) ==
  IF script[i].conn = None THEN TRUE
  ELSE /\ loc[i].attempt + 1 <= Len(script[i].conn[1])
       /\ script[i].conn[1][loc[i].attempt + 1] = o
\* an invocation that mirrors i meets the same outcome at the same site
Note(i, site, o) ==
  [j \in Invs |-> IF req[j].mirror = i
                  THEN [script[j] EXCEPT ![site] = Some(o)]
                  ELSE script[j]]

NoCalls == [ocr |-> 0, llm |-> 0, db |-> 0, bids |-> 0, docx |-> 0]
Called(i, svc) == [calls EXCEPT ![i][svc] = @ + 1]

EmptyDir == [source |-> None, extraccion |-> None, extracccion |-> None,
             analysis |-> None, folder |-> None, docs |-> <<>>,
             inconsistencias |-> None]

Running(i, at) == task[i] = "running" /\ pc[i] = at
GotoRestarting(i, at) ==
  pc' = [pc EXCEPT ![i] = IF pc[i] = "ocr_sleep" THEN "persist" ELSE at]
Goto(i, at) == pc' = [pc EXCEPT ![i] = at]

\* put_in_queue: asyncio.Queue() is unbounded, put never waits
PutDropping(q, evs) == q
Put(q, evs) == q \o evs

\* one queue shared by every invocation
EmitShared(i, evs) ==
  /\ queue' = [queue EXCEPT !["a"] = Put(@, evs)]
  /\ produced' = [produced EXCEPT ![i] = @ \o evs]
Emit(i, evs) ==
  /\ queue' = [queue EXCEPT ![i] = Put(@, evs)]
  /\ produced' = [produced EXCEPT ![i] = @ \o evs]
NoEmit == UNCHANGED <<queue, produced>>

\* raise inside the try of the pipeline: control goes to its except branch
RaiseSwallowed(i, e) ==
  /\ loc' = [loc EXCEPT ![i].exc = e]
  /\ UNCHANGED pc
Raise(i, e) ==
  /\ loc' = [loc EXCEPT ![i].exc = e]
  /\ Goto(i, "handler")

\* an exception that is no Exception subclass passes every `except Exception`
\* and ends the task
Escape(i, e) ==
  /\ task' = [task EXCEPT ![i] = "raised"]
  /\ taskExc' = [taskExc EXCEPT ![i] = e]

adapterVars == <<apc, delivered>>

\* ------------------------------------------------------- analysis: the parser
DefaultRfc == <<"XAXX010101000">>

RECURSIVE JoinUnseparated(_)
JoinUnseparated(data) ==
  IF Len(data) = 0 THEN <<>> ELSE data[1].text \o JoinUnseparated(Tail(data))

\* "\n".join(page['text'] for page in ocr_data)
RECURSIVE JoinLines(_)
JoinLines(data) ==
  IF Len(data) = 0 THEN <<>>
  ELSE IF Len(data) = 1 THEN data[1].text
  ELSE data[1].text \o <<"\n">> \o JoinLines(Tail(data))

\* except (httpx.ConnectError, httpx.ConnectTimeout)
IsRetryableAny(o) == TRUE
IsRetryable(o) == o \in {"ConnectError", "ConnectTimeout"}

\* if attempt < max_retries - 1
MayRetryOnce(attempt) == attempt < max_retries - 2
MayRetry(attempt) == attempt < max_retries - 1

RetryNotice(attempt) ==
  ProgressEvent("Parser", OcrBase,
                <<"Servidor OCR ocupado, reintentando... (", ToString(attempt + 1),
                  "/", ToString(max_retries), ")">>)

\* raise Exception(f"Fallo en ocr tras varios intentos: {str(e)}")
ExhaustedMsgNoCause(e) == <<"Fallo en ocr tras varios intentos: ">>
ExhaustedMsg(e) == <<"Fallo en ocr tras varios intentos: ", e>>

\* raise Exception(f"Fallo en ocr: {str(e)}")
OcrFailMsg(e) == <<"Fallo en ocr: ">> \o e

ParserStart(i) ==
  /\ Running(i, "parse")
  /\ LET text == IF req[i].file = "txt" THEN <<"txt">> ELSE <<>>
         first == ProgressEvent("Parser", 10, <<"Iniciando analisis documental...">>)
         second == ProgressEvent("Parser", OcrBase, <<"Detectando tipo de PDF...">>)
     IN /\ loc' = [loc EXCEPT ![i].ocr_text = text, ![i].attempt = 0]
        /\ IF text = <<>>
           THEN Emit(i, <<first, second>>) /\ Goto(i, "ocr_try")
           ELSE Emit(i, <<first>>) /\ Goto(i, "check_text")
  /\ UNCHANGED <<req, script, task, taskExc, adapterVars, fs, calls, lastOcr>>
  /\ UNCHANGED storeVars

\* client.stream(...) raises before any line is read
OcrFail(i) ==
  /\ Running(i, "ocr_try")
  /\ \E o \in {"ConnectError", "ConnectTimeout", "ReadTimeout"} :
       /\ ConnPick(i, o)
       /\ lastOcr' = [lastOcr EXCEPT ![i] = o]
       /\ IF IsRetryable(o)
          THEN IF MayRetry(loc[i].attempt)
               THEN /\ Emit(i, <<RetryNotice(loc[i].attempt)>>)
                    /\ Goto(i, "ocr_sleep")
                    /\ UNCHANGED loc
               ELSE NoEmit /\ Raise(i, ExhaustedMsg(o))
          ELSE NoEmit /\ Raise(i, OcrFailMsg(<<o>>))
  /\ calls' = Called(i, "ocr")
  /\ UNCHANGED <<req, script, task, taskExc, adapterVars, fs>>
  /\ UNCHANGED storeVars

\* await asyncio.sleep(5); continue
OcrSleep(i) ==
  /\ Running(i, "ocr_sleep")
  /\ loc' = [loc EXCEPT ![i].attempt = @ + 1]
  /\ Goto(i, "ocr_try")
  /\ UNCHANGED <<req, script, task, taskExc, queue, produced, adapterVars, fs,
                 calls, lastOcr>>
  /\ UNCHANGED storeVars

\* if resp.status_code != 200: raise Exception(...), wrapped by except Exception
OcrHttpError(i) ==
  /\ Running(i, "ocr_try")
  /\ ConnPick(i, "ok")
  /\ Pick(i, "http", "500")
  /\ script' = Note(i, "http", "500")
  /\ lastOcr' = [lastOcr EXCEPT ![i] = "http_error"]
  /\ Raise(i, OcrFailMsg(<<"Error en servicio OCR: ", "500">>))
  /\ calls' = Called(i, "ocr")
  /\ NoEmit
  /\ UNCHANGED <<req, task, taskExc, adapterVars, fs>>
  /\ UNCHANGED storeVars

\* the responses the extraction service and the transport can give to a file: a
\* page list, the point where the service fails (0: nowhere) and what the
\* transport does to the lines
Responses(file) ==
  LET ValidResponse(d) ==
        /\ d.fail <= (IF file = "pdf" THEN Len(d.pages) + 1 ELSE 2)
        /\ IF d.xfer = "clean" THEN d.at = 0
           ELSE /\ d.at >= 1
                /\ d.at <= Len(VlmStream(file, d.pages, d.fail))
                           + (IF d.xfer = "cut" THEN 1 ELSE 0)
      PageSeqs(file0) ==
        LET \* A page of the uploaded PDF: native text, a scan the model reads, or a scan
            \* the model reads nothing from.
            PageKinds == {"digital", "scanned", "blank"}
        IN
        IF file0 = "pdf"
        THEN UNION {[1..n -> PageKinds] : n \in 1..MaxPages}
        ELSE [1..1 -> {"scanned", "blank"}]
  IN
  { d \in { [pages |-> p, fail |-> f, xfer |-> x, at |-> a] :
               p \in PageSeqs(file), f \in 0..(MaxPages + 1),
               x \in {"clean", "garbled", "cut"}, a \in 0..(MaxPages + 3) } :
      ValidResponse(d) }

\* What the HTTP client reads: the service's lines, or a prefix of them ended
\* by a line that is no JSON ("garbled") or by a transport error ("cut").
Received(stream, xfer, at) ==
  LET ReadErrorLine == Chunk("<read_error>", None, <<>>, <<>>)
      GarbledLine == Chunk("<garbled>", None, <<>>, <<>>)
  IN
  IF xfer = "clean" THEN stream
  ELSE SubSeq(stream, 1, at - 1)
       \o <<IF xfer = "garbled" THEN GarbledLine ELSE ReadErrorLine>>

OcrConnected(i) ==
  /\ Running(i, "ocr_try")
  /\ ConnPick(i, "ok")
  /\ Pick(i, "http", "200")
  /\ \E d \in Responses(IF req[i].file = "pdf" THEN "pdf" ELSE "image") :
       /\ Pick(i, "resp", d)
       /\ script' = [j \in Invs |->
                       IF req[j].mirror = i
                       THEN [script[j] EXCEPT !["http"] = Some("200"),
                                              !["resp"] = Some(d)]
                       ELSE script[j]]
       /\ loc' = [loc EXCEPT ![i].lines =
                    Received(VlmStream(IF req[i].file = "pdf" THEN "pdf" ELSE "image",
                                       d.pages, d.fail), d.xfer, d.at)]
  /\ lastOcr' = [lastOcr EXCEPT ![i] = "streaming"]
  /\ Goto(i, "ocr_read")
  /\ calls' = Called(i, "ocr")
  /\ NoEmit
  /\ UNCHANGED <<req, task, taskExc, adapterVars, fs>>
  /\ UNCHANGED storeVars

\* one iteration of `async for line in resp.aiter_lines()`
OcrRead(i) ==
  LET \* scaled_val = 20 + int(chunk["val"] * 0.65)
      ScaledVal(v) == OcrBase + (v * OcrSpanPct) \div 100
  IN
  /\ Running(i, "ocr_read")
  /\ loc[i].lines # <<>>
  /\ LET c == Head(loc[i].lines)
         w == req[i].ws
     IN \E o \in {"ok", "oserror"} :
          /\ IF c.status = "complete"
             THEN Pick(i, "extr", o) /\ script' = Note(i, "extr", o)
             ELSE o = "ok" /\ UNCHANGED script
          /\ IF c.status = "<garbled>"
             THEN /\ Raise(i, OcrFailMsg(<<"JSONDecodeError">>))
                  /\ lastOcr' = [lastOcr EXCEPT ![i] = "decode_error"]
                  /\ NoEmit /\ UNCHANGED fs
             ELSE IF c.status = "<read_error>"
             THEN /\ Raise(i, OcrFailMsg(<<"ReadError">>))
                  /\ lastOcr' = [lastOcr EXCEPT ![i] = "read_error"]
                  /\ NoEmit /\ UNCHANGED fs
             ELSE IF c.status = "complete"
             THEN /\ loc' = [loc EXCEPT ![i].lines = Tail(@),
                                        ![i].ocr_text = JoinLines(c.data)]
                  /\ fs' = IF o = "ok"
                           THEN [fs EXCEPT ![w].extraccion = Some(JoinLines(c.data))]
                           ELSE fs
                  /\ NoEmit /\ UNCHANGED <<pc, lastOcr>>
             ELSE IF c.status = "progress"
             THEN /\ Emit(i, <<ProgressEvent("Parser", ScaledVal(c.val[1]), c.msg)>>)
                  /\ loc' = [loc EXCEPT ![i].lines = Tail(@)]
                  /\ UNCHANGED <<pc, lastOcr, fs>>
             ELSE IF c.status = "info"
             THEN /\ Emit(i, <<ProgressEvent("Parser", OcrBase, c.msg)>>)
                  /\ loc' = [loc EXCEPT ![i].lines = Tail(@)]
                  /\ UNCHANGED <<pc, lastOcr, fs>>
             ELSE /\ loc' = [loc EXCEPT ![i].lines = Tail(@)]
                  /\ NoEmit /\ UNCHANGED <<pc, lastOcr, fs>>
  /\ UNCHANGED <<req, task, taskExc, adapterVars, calls>>
  /\ UNCHANGED storeVars

\* the stream ended: break out of the retry loop
OcrEnd(i) ==
  /\ Running(i, "ocr_read")
  /\ loc[i].lines = <<>>
  /\ lastOcr' = [lastOcr EXCEPT ![i] = "ok"]
  /\ Goto(i, "check_text")
  /\ UNCHANGED <<req, script, task, taskExc, loc, queue, produced, adapterVars,
                 fs, calls>>
  /\ UNCHANGED storeVars

\* a BaseException thrown into the task while it waits for the service
OcrFault(i) ==
  /\ Running(i, "ocr_try")
  /\ ConnPick(i, "fault")
  /\ Escape(i, <<"fault in ocr">>)
  /\ lastOcr' = [lastOcr EXCEPT ![i] = "fault"]
  /\ calls' = Called(i, "ocr")
  /\ UNCHANGED <<req, script, pc, loc, queue, produced, adapterVars, fs>>
  /\ UNCHANGED storeVars

CheckText(i) ==
  /\ Running(i, "check_text")
  /\ IF loc[i].ocr_text = <<>>
     THEN NoEmit /\ Raise(i, <<"El analista no pudo encontrar texto legible en el documento.">>)
     ELSE /\ Emit(i, <<ProgressEvent("Parser", 90, <<"Estructurando inteligencia...">>)>>)
          /\ Goto(i, "llm")
          /\ UNCHANGED loc
  /\ UNCHANGED <<req, script, task, taskExc, adapterVars, fs, calls, lastOcr>>
  /\ UNCHANGED storeVars

\* ---------------------------------------------- analysis: structuring (LLM)
\* the defaults dict of TenderParserAgent.execute (the keys the model reads)
Defaults ==
  [numero_licitacion |-> <<"N", "/", "D">>,
   convocante |-> <<"N/D">>,
   categorized_anexos |-> [technical |-> <<>>, economic |-> <<>>]]

\* final_analysis = {**defaults, **analysis}
Merge(defaults, parsed) ==
  [k \in DOMAIN defaults \cup DOMAIN parsed |->
     IF k \in DOMAIN parsed THEN parsed[k] ELSE defaults[k]]

Structure(i) ==
  LET LlmReplies == {"object", "empty_object", "invalid_json", "non_object",
                     "http_error", "exception"}
  IN
  LET Parsed(payload) ==
        LET \* what json.loads gives for the payloads the model distinguishes; a payload
            \* that is no JSON gives {} (the except branch)
            LlmObject ==
              [numero_licitacion |-> <<"LIC", "/", "1">>,
               categorized_anexos |-> [technical |-> << <<"T", "1">> >>,
                                       economic |-> << <<"E", "1">> >>]]
        IN
                         IF payload = "object" THEN LlmObject ELSE << >>
  IN
  /\ Running(i, "llm")
  /\ \E o \in LlmReplies :
       /\ Pick(i, "llm", o)
       /\ script' = Note(i, "llm", o)
       /\ IF o = "exception"
          THEN NoEmit /\ Raise(i, <<"ReadTimeout">>)
          ELSE IF o = "http_error"
          THEN NoEmit /\ Raise(i, <<"Error en Ollama">>)
          ELSE IF o = "non_object"
          THEN NoEmit /\ Raise(i, <<"'list' object is not a mapping">>)
          ELSE /\ loc' = [loc EXCEPT ![i].analysis = Some(Merge(Defaults, Parsed(o)))]
               /\ Emit(i, <<ProgressEvent("Parser", 100, <<"Analisis documental completado.">>)>>)
               /\ Goto(i, "write_analysis")
  /\ calls' = Called(i, "llm")
  /\ UNCHANGED <<req, task, taskExc, adapterVars, fs, lastOcr>>
  /\ UNCHANGED storeVars

StructureFault(i) ==
  /\ Running(i, "llm")
  /\ Pick(i, "llm", "fault")
  /\ script' = Note(i, "llm", "fault")
  /\ Escape(i, <<"fault in llm">>)
  /\ calls' = Called(i, "llm")
  /\ UNCHANGED <<req, pc, loc, queue, produced, adapterVars, fs, lastOcr>>
  /\ UNCHANGED storeVars

\* -------------------------------------------- analysis: the coordinator
\* str(...).replace("/", "_").replace("\\", "_")
RECURSIVE ReplaceSlashes(_)
ReplaceSlashes(s) ==
  IF s = <<>> THEN <<>>
  ELSE <<IF Head(s) \in {"/", "\\"} THEN "_" ELSE Head(s)>> \o ReplaceSlashes(Tail(s))

PersistSource(i) ==
  /\ Running(i, "persist")
  /\ \E o \in {"ok", "oserror"} :
       /\ Pick(i, "persist", o)
       /\ script' = Note(i, "persist", o)
       /\ IF o = "ok"
          THEN /\ fs' = [fs EXCEPT ![req[i].ws].source = Some(req[i].file)]
               /\ Goto(i, "parse")
               /\ UNCHANGED loc
          ELSE Raise(i, <<"OSError">>) /\ UNCHANGED fs
  /\ NoEmit
  /\ UNCHANGED <<req, task, taskExc, adapterVars, calls, lastOcr>>
  /\ UNCHANGED storeVars

\* json.dump(analysis, f) into analysis.json of the workspace directory
\* the content of a file whose write stopped part-way: no JSON document
CutShort == [cut_short |-> TRUE]

StoreAnalysisSkipped(dir, analysis) == dir
StoreAnalysis(dir, analysis) == [dir EXCEPT !.analysis = analysis]

\* with open(analysis.json, "w") as f: json.dump(analysis, f).  open can fail
\* and leave the file as it was ("oserror"); once open has succeeded the file is
\* truncated, and a failing write leaves it cut short ("oserror_write").
WriteAnalysis(i) ==
  /\ Running(i, "write_analysis")
  /\ \E o \in {"ok", "oserror", "oserror_write"} :
       /\ Pick(i, "wa", o)
       /\ script' = Note(i, "wa", o)
       /\ IF o = "ok"
          THEN /\ fs' = [fs EXCEPT ![req[i].ws] = StoreAnalysis(@, loc[i].analysis)]
               /\ loc' = [loc EXCEPT ![i].licit_id =
                            ReplaceSlashes(loc[i].analysis[1].numero_licitacion)]
               /\ Goto(i, "bids")
          ELSE IF o = "oserror_write"
          THEN /\ fs' = [fs EXCEPT ![req[i].ws] = StoreAnalysis(@, Some(CutShort))]
               /\ Raise(i, <<"OSError">>)
          ELSE Raise(i, <<"OSError">>) /\ UNCHANGED fs
  /\ NoEmit
  /\ UNCHANGED <<req, task, taskExc, adapterVars, calls, lastOcr>>
  /\ UNCHANGED storeVars

\* the request without its try / except: pass
SyncBidsUnguarded(i) ==
  /\ Running(i, "bids")
  /\ \E o \in {"ok", "non200", "fail"} :
       /\ Pick(i, "bids", o)
       /\ script' = Note(i, "bids", o)
       /\ IF o = "fail"
          THEN Raise(i, <<"ConnectError">>)
          ELSE Goto(i, "company") /\ UNCHANGED loc
  /\ calls' = Called(i, "bids")
  /\ NoEmit
  /\ UNCHANGED <<req, task, taskExc, adapterVars, fs, lastOcr>>
  /\ UNCHANGED storeVars

\* client.post(.../db/bids) inside try / except: pass: the answer is not looked
\* at, and an exception ("fail") is swallowed
SyncBids(i) ==
  /\ Running(i, "bids")
  /\ \E o \in {"ok", "non200", "fail"} :
       /\ Pick(i, "bids", o)
       /\ script' = Note(i, "bids", o)
  /\ calls' = Called(i, "bids")
  /\ Goto(i, "company")
  /\ NoEmit
  /\ UNCHANGED <<req, task, taskExc, loc, adapterVars, fs, lastOcr>>
  /\ UNCHANGED storeVars

GetCompany(i) ==
  LET \* _get_company_data: the record built from the workspace row, or the default
      \* one after any failure (bare except)
      CompanyOf(o) ==
        IF o = "real"
        THEN [razon_social |-> <<"ACME">>, rfc |-> <<"RFC1">>, cargo |-> <<"Administrador">>]
        ELSE IF o = "blank"
        THEN [razon_social |-> <<"EMPRESA S.A. DE C.V.">>, rfc |-> DefaultRfc,
              cargo |-> <<"Representante Legal">>]
        ELSE [razon_social |-> <<"EMPRESA S.A.">>, rfc |-> DefaultRfc,
              cargo |-> <<"Representante Legal">>]
  IN
  /\ task[i] = "running" /\ pc[i] \in {"company", "g_company"}
  /\ \E o \in {"real", "blank", "fail"} :
       /\ Pick(i, "db", o)
       /\ script' = Note(i, "db", o)
       /\ loc' = [loc EXCEPT ![i].company = Some(CompanyOf(o))]
  /\ calls' = Called(i, "db")
  /\ Goto(i, IF pc[i] = "company" THEN "profile" ELSE "g_profile")
  /\ NoEmit
  /\ UNCHANGED <<req, task, taskExc, adapterVars, fs, lastOcr>>
  /\ UNCHANGED storeVars

BuildProfile(i) ==
  LET \* ProfileAgent.execute
      ProfileOf(analysis, company, o) ==
        LET final == IF o = "found"
                     THEN [company EXCEPT !.razon_social = <<"GLOBAL">>, !.rfc = <<"RFC2">>]
                     ELSE company
        IN [tender |-> [numero_licitacion |-> analysis.numero_licitacion,
                        convocante |-> analysis.convocante],
            licitante |-> [empresa |-> final.razon_social, rfc |-> final.rfc,
                           cargo |-> final.cargo]]
  IN
  /\ task[i] = "running" /\ pc[i] \in {"profile", "g_profile"}
  /\ \E o \in {"skip", "found", "none", "fail"} :
       /\ (o = "skip") <=> (loc[i].company[1].rfc # DefaultRfc)
       /\ Pick(i, "dbl", o)
       /\ script' = Note(i, "dbl", o)
       /\ calls' = IF o = "skip" THEN calls ELSE Called(i, "db")
       /\ loc' = [loc EXCEPT ![i].profile =
                    Some(ProfileOf(loc[i].analysis[1], loc[i].company[1], o))]
  /\ Goto(i, IF pc[i] = "profile" THEN "complete" ELSE "g_folder")
  /\ NoEmit
  /\ UNCHANGED <<req, task, taskExc, adapterVars, fs, lastOcr>>
  /\ UNCHANGED storeVars

AnalysisComplete(i) ==
  /\ Running(i, "complete")
  /\ Emit(i, << [Event("complete", Some("Coordinator"), None,
                       <<"Analisis y perfilado completado para ">> \o loc[i].licit_id)
                 EXCEPT !.analysis = loc[i].analysis,
                        !.profile = loc[i].profile] >>)
  /\ Goto(i, "ret")
  /\ UNCHANGED <<req, script, task, taskExc, loc, adapterVars, fs, calls, lastOcr>>
  /\ UNCHANGED storeVars

\* except Exception as e: ... progress_callback(error)
Handler(i) ==
  /\ Running(i, "handler")
  /\ Emit(i, ErrorEvent(loc[i].exc))
  /\ Goto(i, "ret")
  /\ UNCHANGED <<req, script, task, taskExc, loc, adapterVars, fs, calls, lastOcr>>
  /\ UNCHANGED storeVars

\* the coroutine returns: task.done() becomes true
TaskReturn(i) ==
  /\ Running(i, "ret")
  /\ task' = [task EXCEPT ![i] = "returned"]
  /\ UNCHANGED <<req, script, taskExc, pc, loc, queue, produced, adapterVars, fs,
                 calls, lastOcr>>
  /\ UNCHANGED storeVars

\* ------------------------------------------------------ the streaming adapter
TaskDone(i) == task[i] \in {"returned", "raised"}

\* while not task.done() or not queue.empty()
LoopCondNoDrain(i) == ~TaskDone(i)
LoopCond(i) == ~TaskDone(i) \/ queue[i] # <<>>

\* the request arrives: the generator creates the queue and the task
StartRequest(i) ==
  /\ task[i] = "idle"
  /\ req[i].kind # "off"
  /\ IF req[i].after = NoInv THEN TRUE ELSE apc[req[i].after] = "closed"
  /\ task' = [task EXCEPT ![i] = "running"]
  /\ Goto(i, IF req[i].kind = "analysis" THEN "persist" ELSE "load")
  /\ apc' = [apc EXCEPT ![i] = "check"]
  /\ UNCHANGED <<req, script, taskExc, loc, queue, produced, delivered, fs, calls,
                 lastOcr>>
  /\ UNCHANGED storeVars

AdapterCheck(i) ==
  /\ apc[i] = "check"
  /\ apc' = [apc EXCEPT ![i] = IF LoopCond(i) THEN "wait" ELSE "final"]
  /\ UNCHANGED <<req, script, task, taskExc, pc, loc, queue, produced, delivered,
                 fs, calls, lastOcr>>
  /\ UNCHANGED storeVars

\* msg = await asyncio.wait_for(queue.get(), timeout=1.0); yield msg
AdapterGet(i) ==
  /\ apc[i] = "wait"
  /\ queue[i] # <<>>
  /\ delivered' = [delivered EXCEPT ![i] = Append(@, Head(queue[i]))]
  /\ queue' = [queue EXCEPT ![i] = Tail(@)]
  /\ apc' = [apc EXCEPT ![i] = "check"]
  /\ UNCHANGED <<req, script, task, taskExc, pc, loc, produced, fs, calls, lastOcr>>
  /\ UNCHANGED storeVars

\* except asyncio.TimeoutError: continue
AdapterTimeout(i) ==
  /\ apc[i] = "wait"
  /\ queue[i] = <<>>
  /\ apc' = [apc EXCEPT ![i] = "check"]
  /\ UNCHANGED <<req, script, task, taskExc, pc, loc, queue, produced, delivered,
                 fs, calls, lastOcr>>
  /\ UNCHANGED storeVars

\* if task.exception(): yield error; the generator ends
AdapterFinish(i) ==
  /\ apc[i] = "final"
  /\ delivered' = [delivered EXCEPT ![i] =
                     @ \o (IF task[i] = "raised" THEN SynthError(taskExc[i]) ELSE <<>>)]
  /\ apc' = [apc EXCEPT ![i] = "closed"]
  /\ UNCHANGED <<req, script, task, taskExc, pc, loc, queue, produced, fs, calls,
                 lastOcr>>
  /\ UNCHANGED storeVars

\* ---------------------------------------------------- generation pipeline
\* dict.get(key, default)
Get(d, key, default) == IF key \in DOMAIN d THEN d[key] ELSE default

RECURSIVE ReplaceSpaces(_)
ReplaceSpaces(s) ==
  IF s = <<>> THEN <<>>
  ELSE <<IF Head(s) = " " THEN "_" ELSE Head(s)>> \o ReplaceSpaces(Tail(s))

\* tech_anexos, with the fallback to the old format when both categories are
\* empty
TechAnexos(analysis) ==
  LET cat == Get(analysis, "categorized_anexos", [technical |-> <<>>, economic |-> <<>>])
  IN IF cat.technical = <<>> /\ cat.economic = <<>>
     THEN Get(analysis, "anexos_requeridos", <<>>)
     ELSE cat.technical
EconAnexos(analysis) ==
  Get(analysis, "categorized_anexos", [technical |-> <<>>, economic |-> <<>>]).economic

\* prog = start_prog + int((i / len(anexos)) * total_prog), i counted from 0
StepProgress(start, total, k, n) == start + (k * total) \div n

\* what generate_document returns: the document, or None after any failure of
\* the LLM call or of the render call (return None / except Exception)
RenderedAlways(name, o) == Some([name |-> name \o <<".docx">>, content |-> <<"docx">>])
Rendered(name, o) ==
  IF o = "ok" THEN Some([name |-> name \o <<".docx">>, content |-> <<"docx">>])
  ELSE None

\* not os.path.exists(analysis_path)
AnalysisMissingNever(w) == FALSE
AnalysisMissing(w) == fs[w].analysis = None

LoadAnalysis(i) ==
  /\ Running(i, "load")
  /\ IF AnalysisMissing(req[i].ws)
     THEN Raise(i, <<"No se encontro un analisis previo. Por favor analice las bases primero.">>)
     ELSE IF /\ fs[req[i].ws].analysis # None
             /\ "cut_short" \in DOMAIN fs[req[i].ws].analysis[1]
     THEN Raise(i, <<"JSONDecodeError">>)   \* json.load(f)
     ELSE /\ loc' = [loc EXCEPT ![i].analysis = fs[req[i].ws].analysis]
          /\ Goto(i, "g_company")
  /\ NoEmit
  /\ UNCHANGED <<req, script, task, taskExc, adapterVars, fs, calls, lastOcr>>
  /\ UNCHANGED storeVars

\* the workspace name is read from the store (any failure keeps the id), then
\* os.makedirs(gen_path)
MakeFolder(i) ==
  LET \* f"{ws_name}_Documentos_Generados".replace(" ", "_")
      FolderName(ws_name) == ReplaceSpaces(ws_name \o <<"_Documentos_Generados">>)
  IN
  /\ Running(i, "g_folder")
  /\ \E named \in BOOLEAN, o \in {"ok", "oserror"} :
       LET ws_name == IF named THEN <<"Obra", " ", "1">> ELSE <<req[i].ws>>
       IN IF o = "ok"
          THEN /\ fs' = [fs EXCEPT ![req[i].ws].folder = Some(FolderName(ws_name))]
               /\ loc' = [loc EXCEPT ![i].folder = FolderName(ws_name), ![i].k = 0]
               /\ Goto(i, "g_tech")
          ELSE Raise(i, <<"OSError">>) /\ UNCHANGED fs
  /\ calls' = Called(i, "db")
  /\ NoEmit
  /\ UNCHANGED <<req, script, task, taskExc, adapterVars, lastOcr>>
  /\ UNCHANGED storeVars

Anexos(i) ==
  IF pc[i] = "g_tech" THEN TechAnexos(loc[i].analysis[1]) ELSE EconAnexos(loc[i].analysis[1])
StepAgent(i) == IF pc[i] = "g_tech" THEN "TechnicalAgent" ELSE "EconomicAgent"
StepStart(i) == IF pc[i] = "g_tech" THEN 10 ELSE 50

\* one iteration of the loop of TechnicalProposalAgent / EconomicProposalAgent
\* .execute: the progress event, then generate_document
GenerateDoc(i) ==
  LET \* if doc: results.append(doc)
      Collect(results, doc) == results \o doc
  IN
  /\ task[i] = "running" /\ pc[i] \in {"g_tech", "g_econ"}
  /\ loc[i].k < Len(Anexos(i))
  /\ LET name == Anexos(i)[loc[i].k + 1]
         field == IF pc[i] = "g_tech" THEN "tech" ELSE "econ"
     IN \E o \in {"ok", "llm_failed", "docx_failed"} :
          /\ loc' = [loc EXCEPT ![i][field] = Collect(@, Rendered(name, o)),
                                ![i].k = @ + 1,
                                ![i].outcomes = Append(@, o)]
          /\ calls' = [calls EXCEPT ![i].llm = @ + 1,
                                    ![i].docx = @ + (IF o = "llm_failed" THEN 0 ELSE 1)]
          /\ Emit(i, <<ProgressEvent(StepAgent(i),
                         StepProgress(StepStart(i), 40, loc[i].k, Len(Anexos(i))),
                         <<"Redactando ">> \o name)>>)
  /\ UNCHANGED <<req, script, task, taskExc, pc, adapterVars, fs, lastOcr>>
  /\ UNCHANGED storeVars

\* a BaseException thrown into the task while generate_document waits
GenerateFault(i) ==
  /\ task[i] = "running" /\ pc[i] \in {"g_tech", "g_econ"}
  /\ loc[i].k < Len(Anexos(i))
  /\ Emit(i, <<ProgressEvent(StepAgent(i),
                 StepProgress(StepStart(i), 40, loc[i].k, Len(Anexos(i))),
                 <<"Redactando ">> \o Anexos(i)[loc[i].k + 1])>>)
  /\ Escape(i, <<"fault in generate_document">>)
  /\ calls' = [calls EXCEPT ![i].llm = @ + 1]
  /\ UNCHANGED <<req, script, pc, loc, adapterVars, fs, lastOcr>>
  /\ UNCHANGED storeVars

\* the loop of a step ends: execute returns its results
StepDone(i) ==
  /\ task[i] = "running" /\ pc[i] \in {"g_tech", "g_econ"}
  /\ loc[i].k = Len(Anexos(i))
  /\ loc' = [loc EXCEPT ![i].k = 0]
  /\ Goto(i, IF pc[i] = "g_tech" THEN "g_econ" ELSE "g_write")
  /\ NoEmit
  /\ UNCHANGED <<req, script, task, taskExc, adapterVars, fs, calls, lastOcr>>
  /\ UNCHANGED storeVars

GenDocs(i) == loc[i].tech \o loc[i].econ

DocReadyValFlat(k, n) == 90
\* "val": int(90 + ((i + 1) / num_docs) * 10), i counted from 0
DocReadyVal(k, n) == 90 + ((k + 1) * 10) \div n

\* for i, doc in enumerate(docs): write the file, emit doc_ready
PersistDoc(i) ==
  /\ Running(i, "g_write")
  /\ loc[i].k < Len(GenDocs(i))
  /\ LET doc == GenDocs(i)[loc[i].k + 1]
     IN \E o \in {"ok", "oserror"} :
          IF o = "ok"
          THEN /\ fs' = [fs EXCEPT ![req[i].ws].docs = Append(@, doc.name)]
               /\ loc' = [loc EXCEPT ![i].k = @ + 1]
               /\ Emit(i, << [Event("doc_ready", None,
                                    Some(DocReadyVal(loc[i].k, Len(GenDocs(i)))),
                                    <<"Documento guardado: ">> \o doc.name)
                              EXCEPT !.name = Some(doc.name),
                                     !.folder = Some(loc[i].folder)] >>)
               /\ UNCHANGED pc
          ELSE Raise(i, <<"OSError">>) /\ NoEmit /\ UNCHANGED fs
  /\ UNCHANGED <<req, script, task, taskExc, adapterVars, calls, lastOcr>>
  /\ UNCHANGED storeVars

GenerationComplete(i) ==
  LET DocNames(docs) == [k \in 1..Len(docs) |-> docs[k].name]
  IN
  /\ Running(i, "g_write")
  /\ loc[i].k = Len(GenDocs(i))
  /\ Emit(i, << [Event("complete", Some("Coordinator"), None,
                       <<ToString(Len(GenDocs(i))), " documento(s) generados">>)
                 EXCEPT !.docs = Some(DocNames(GenDocs(i))),
                        !.folder = Some(loc[i].folder)] >>)
  /\ Goto(i, "ret")
  /\ UNCHANGED <<req, script, task, taskExc, loc, adapterVars, fs, calls, lastOcr>>
  /\ UNCHANGED storeVars

\* ------------------------------------------------------------ specifications
Off == [kind |-> "off", ws |-> "w2", file |-> "none", mirror |-> NoInv, after |-> NoInv]

InitIdle ==
  LET InitLoc ==
        [attempt |-> 0, lines |-> <<>>, ocr_text |-> <<>>, exc |-> <<>>,
        analysis |-> None, company |-> None, profile |-> None,
        licit_id |-> <<>>, tech |-> <<>>, econ |-> <<>>, k |-> 0,
        folder |-> <<>>,
        outcomes |-> <<>>]   \* history: generate_document's outcome per anexo
  IN
  /\ task = [i \in Invs |-> "idle"]
  /\ taskExc = [i \in Invs |-> <<>>]
  /\ pc = [i \in Invs |-> "idle"]
  /\ loc = [i \in Invs |-> InitLoc]
  /\ queue = [i \in Invs |-> <<>>]
  /\ apc = [i \in Invs |-> "idle"]
  /\ delivered = [i \in Invs |-> <<>>]
  /\ produced = [i \in Invs |-> <<>>]
  /\ calls = [i \in Invs |-> NoCalls]
  /\ lastOcr = [i \in Invs |-> "none"]
  /\ log = <<>>

InitCommon ==
  /\ InitIdle
  /\ db = [w \in WsIds |-> None]

\* one request: an analysis of any file, or a generation for a workspace with
\* or without a stored analysis
Init ==
  LET \* analyses an earlier invocation may have left in analysis.json
      StoredAnalyses ==
        LET AnexoNames(prefix, n) == [k \in 1..n |-> <<prefix, ToString(k)>>]
        IN
        { Merge(Defaults,
                [categorized_anexos |-> [technical |-> AnexoNames("T", t),
                                         economic |-> AnexoNames("E", e)],
                 anexos_requeridos |-> AnexoNames("A", l)]) :
            t \in 0..MaxDocs, e \in 0..1, l \in 0..1 }
  IN
  LET Files == {"pdf", "image", "txt", "txt_empty"}
  IN
  /\ InitCommon
  /\ script = [i \in Invs |-> FreeScript]
  /\ \/ /\ \E f \in Files :
             req = [i \in Invs |->
                      IF i = "a"
                      THEN [kind |-> "analysis", ws |-> "w1", file |-> f,
                            mirror |-> NoInv, after |-> NoInv]
                      ELSE Off]
        /\ fs = [w \in WsIds |-> EmptyDir]
     \/ /\ req = [i \in Invs |->
                    IF i = "a"
                    THEN [kind |-> "generation", ws |-> "w1", file |-> "none",
                          mirror |-> NoInv, after |-> NoInv]
                    ELSE Off]
        /\ \E prior \in {None} \cup {Some(x) : x \in StoredAnalyses} :
             fs = [w \in WsIds |->
                     IF w = "w1" THEN [EmptyDir EXCEPT !.analysis = prior] ELSE EmptyDir]

AdapterStep(i) ==
  \/ StartRequest(i)
  \/ AdapterCheck(i)
  \/ AdapterGet(i)
  \/ AdapterTimeout(i)
  \/ AdapterFinish(i)

SharedStep(i) ==
  \/ GetCompany(i)
  \/ BuildProfile(i)
  \/ Handler(i)
  \/ TaskReturn(i)

AnalysisCore(i) ==
  \/ PersistSource(i)
  \/ ParserStart(i)
  \/ OcrFail(i)
  \/ OcrSleep(i)
  \/ OcrHttpError(i)
  \/ OcrConnected(i)
  \/ OcrRead(i)
  \/ OcrEnd(i)
  \/ CheckText(i)
  \/ Structure(i)
  \/ StructureFault(i)
  \/ WriteAnalysis(i)
  \/ SyncBids(i)
  \/ AnalysisComplete(i)

AnalysisStep(i) == AnalysisCore(i) \/ OcrFault(i)

GenerationStep(i) ==
  \/ LoadAnalysis(i)
  \/ MakeFolder(i)
  \/ GenerateDoc(i)
  \/ GenerateFault(i)
  \/ StepDone(i)
  \/ PersistDoc(i)
  \/ GenerationComplete(i)

Next ==
  \E i \in Invs : AdapterStep(i) \/ SharedStep(i) \/ AnalysisStep(i) \/ GenerationStep(i)

Spec == Init /\ [][Next]_vars

\* two analyses of the same file, one after the other, in two workspaces: the
\* collaborators answer both alike, except that the extraction service refuses
\* the first two connections of "a" and accepts the first of "b"
InitRetry ==
  /\ InitCommon
  /\ \E f \in {"pdf", "image"} :
       req = [i \in Invs |->
                IF i = "a"
                THEN [kind |-> "analysis", ws |-> "w1", file |-> f,
                      mirror |-> NoInv, after |-> NoInv]
                ELSE [kind |-> "analysis", ws |-> "w2", file |-> f,
                      mirror |-> "a", after |-> "a"]]
  /\ script = [i \in Invs |->
                 [FreeScript EXCEPT !.conn =
                    IF i = "a" THEN Some(<<"ConnectError", "ConnectTimeout", "ok">>)
                    ELSE Some(<<"ok">>)]]
  /\ fs = [w \in WsIds |-> EmptyDir]

NextRetry == \E i \in Invs : AdapterStep(i) \/ SharedStep(i) \/ AnalysisCore(i)

SpecRetry == InitRetry /\ [][NextRetry]_vars

StartAfterTerminal(i) ==
  LET \* an analysis of a workspace and then a generation for the same workspace,
      \* requested once the client has read the terminal event of the analysis (the
      \* analysis task may not have returned yet) or later
      Observed(i0) == \E k \in 1..Len(delivered[i0]) : IsTerminal(delivered[i0][k])
  IN
  /\ task[i] = "idle"
  /\ req[i].kind # "off"
  /\ req[i].after # NoInv
  /\ IF req[i].after = NoInv THEN FALSE
     ELSE Observed(req[i].after) /\ apc[req[i].after] # "closed"
  /\ task' = [task EXCEPT ![i] = "running"]
  /\ Goto(i, IF req[i].kind = "analysis" THEN "persist" ELSE "load")
  /\ apc' = [apc EXCEPT ![i] = "check"]
  /\ UNCHANGED <<req, script, taskExc, loc, queue, produced, delivered, fs, calls,
                 lastOcr>>
  /\ UNCHANGED storeVars

InitChain ==
  /\ InitCommon
  /\ script = [i \in Invs |-> FreeScript]
  /\ \E f \in {"txt", "image"} :
       req = [i \in Invs |->
                IF i = "a"
                THEN [kind |-> "analysis", ws |-> "w1", file |-> f,
                      mirror |-> NoInv, after |-> NoInv]
                ELSE [kind |-> "generation", ws |-> "w1", file |-> "none",
                      mirror |-> NoInv, after |-> "a"]]
  /\ fs = [w \in WsIds |-> EmptyDir]

NextChain ==
  \E i \in Invs :
    \/ AdapterStep(i)
    \/ StartAfterTerminal(i)
    \/ SharedStep(i)
    \/ AnalysisStep(i)
    \/ GenerationStep(i)

SpecChain == InitChain /\ [][NextChain]_vars

\* the client disconnects: the response's generator is closed where it is
\* suspended (at its yield or in wait_for) and yields nothing more.  The task
\* made by asyncio.create_task is not awaited by the generator and the
\* generator has no finally clause that cancels it.
DetachedCancelled(t) == IF t = "running" THEN "raised" ELSE t
Detached(t) == t

Disconnect(i) ==
  /\ apc[i] \in {"check", "wait"}
  /\ apc' = [apc EXCEPT ![i] = "gone"]
  /\ task' = [task EXCEPT ![i] = Detached(@)]
  /\ UNCHANGED <<req, script, taskExc, pc, loc, queue, produced, delivered, fs,
                 calls, lastOcr>>
  /\ UNCHANGED storeVars

\* two analyses of the same file, one after the other, in two workspaces; the
\* collaborators answer both alike; the client of either may disconnect
InitDrop ==
  LET \* the connection outcomes the two analyses of SpecDrop both meet
      DropConns ==
        {<<"ok">>, <<"ConnectError", "ok">>,
         <<"ConnectTimeout", "ConnectError", "ConnectError">>}
  IN
  /\ InitCommon
  /\ \E f \in {"txt", "image"} :
       req = [i \in Invs |->
                IF i = "a"
                THEN [kind |-> "analysis", ws |-> "w1", file |-> f,
                      mirror |-> NoInv, after |-> NoInv]
                ELSE [kind |-> "analysis", ws |-> "w2", file |-> f,
                      mirror |-> "a", after |-> "a"]]
  /\ \E c \in DropConns :
       script = [i \in Invs |-> [FreeScript EXCEPT !.conn = Some(c)]]
  /\ fs = [w \in WsIds |-> EmptyDir]

TaskStep(i) == SharedStep(i) \/ AnalysisCore(i)

NextDrop == \E i \in Invs : AdapterStep(i) \/ Disconnect(i) \/ TaskStep(i)

\* the event loop runs a task that is ready, and every request of the
\* pipeline has a timeout
SpecDrop == InitDrop /\ [][NextDrop]_vars /\ \A i \in Invs : WF_vars(TaskStep(i))

\* two invocations in flight at the same time: an analysis of a text file for
\* w1, and with it another analysis (for w1 or w2) or a generation (for w1 or
\* w2, which holds an earlier analysis).  The file system and the workspace
\* store answer; the structuring service answers, refuses or is interrupted.
InitPair ==
  LET Earlier == Merge(Defaults,
                       [categorized_anexos |-> [technical |-> << <<"T", "1">> >>,
                                                economic |-> <<>>]])
      Pinned(llm) == [FreeScript EXCEPT !.persist = Some("ok"), !.wa = Some("ok"),
                                        !.db = Some("real"), !.dbl = Some("skip"),
                                        !.llm = Some(llm)]
      LlmOutcomes == {"object", "http_error", "fault"}
  IN
  /\ InitCommon
  /\ \E kb \in {"analysis", "generation"}, wb \in WsIds, la, lb \in LlmOutcomes :
       /\ kb = "generation" => lb = "object"
       /\ req = [i \in Invs |->
                   IF i = "a"
                   THEN [kind |-> "analysis", ws |-> "w1", file |-> "txt",
                         mirror |-> NoInv, after |-> NoInv]
                   ELSE [kind |-> kb, ws |-> wb,
                         file |-> IF kb = "analysis" THEN "txt" ELSE "none",
                         mirror |-> NoInv, after |-> NoInv]]
       /\ script = [i \in Invs |-> Pinned(IF i = "a" THEN la ELSE lb)]
       /\ fs = [w \in WsIds |->
                  IF kb = "generation" /\ w = wb
                  THEN [EmptyDir EXCEPT !.analysis = Some(Earlier)]
                  ELSE EmptyDir]

NextPair ==
  \E i \in Invs :
    \/ AdapterStep(i)
    \/ SharedStep(i)
    \/ PersistSource(i)
    \/ ParserStart(i)
    \/ CheckText(i)
    \/ Structure(i)
    \/ StructureFault(i)
    \/ WriteAnalysis(i)
    \/ SyncBids(i)
    \/ AnalysisComplete(i)
    \/ GenerationStep(i)

SpecPair == InitPair /\ [][NextPair]_vars

\* a workspace that holds the analysis of an earlier invocation is analysed
\* again, and once that stream has ended a generation is requested for it
EarlierAnalysis ==
  Merge(Defaults,
        [numero_licitacion |-> <<"OLD">>,
         categorized_anexos |-> [technical |-> << <<"T", "0">> >>, economic |-> <<>>]])

InitReanalysis ==
  /\ InitCommon
  /\ script = [i \in Invs |-> FreeScript]
  /\ \E f \in {"txt", "image"} :
       req = [i \in Invs |->
                IF i = "a"
                THEN [kind |-> "analysis", ws |-> "w1", file |-> f,
                      mirror |-> NoInv, after |-> NoInv]
                ELSE [kind |-> "generation", ws |-> "w1", file |-> "none",
                      mirror |-> NoInv, after |-> "a"]]
  /\ fs = [w \in WsIds |->
             IF w = "w1" THEN [EmptyDir EXCEPT !.analysis = Some(EarlierAnalysis)]
             ELSE EmptyDir]

SpecReanalysis == InitReanalysis /\ [][Next]_vars

\* ------------------------------------- the legacy identity-document endpoints
\* stream_orchestrator is an async generator: what it yields goes straight to
\* the client (delivered), there is no queue and no task; an exception that
\* leaves the generator ends the stream.
LegacyConnect(i) ==
  /\ Running(i, "l_conn")
  /\ \/ \* the request fails: except Exception yields an error event and returns
        \E e \in {"ConnectError", "ConnectTimeout"} :
          /\ delivered' = [delivered EXCEPT ![i] =
                             Append(@, [status |-> "error", msg |-> <<e>>])]
          /\ apc' = [apc EXCEPT ![i] = "closed"]
          /\ task' = [task EXCEPT ![i] = "returned"]
          /\ Goto(i, "ret")
          /\ UNCHANGED loc
     \/ \E d \in Responses(req[i].file) :
          /\ loc' = [loc EXCEPT ![i].lines =
                       Received(VlmStream(req[i].file, d.pages, d.fail), d.xfer, d.at)]
          /\ Goto(i, "l_read")
          /\ UNCHANGED <<task, apc, delivered>>
  /\ calls' = Called(i, "ocr")
  /\ UNCHANGED <<req, script, taskExc, queue, produced, fs, lastOcr>>
  /\ UNCHANGED storeVars

\* one iteration of `async for line in resp.aiter_lines()`
LegacyRead(i) ==
  /\ Running(i, "l_read")
  /\ loc[i].lines # <<>>
  /\ LET c == Head(loc[i].lines)
     IN IF c.status \in {"<garbled>", "<read_error>"}
        THEN /\ delivered' = [delivered EXCEPT ![i] =
                                Append(@, [status |-> "error",
                                           msg |-> IF c.status = "<garbled>"
                                                   THEN <<"JSONDecodeError">>
                                                   ELSE <<"ReadError">>])]
             /\ apc' = [apc EXCEPT ![i] = "closed"]
             /\ task' = [task EXCEPT ![i] = "returned"]
             /\ Goto(i, "ret")
             /\ UNCHANGED <<loc, fs>>
        ELSE IF c.status = "complete"
        THEN /\ loc' = [loc EXCEPT ![i].lines = Tail(@),
                                   ![i].ocr_text = JoinLines(c.data)]
             /\ \E o \in {"ok", "oserror"} :
                  fs' = IF o = "ok"
                        THEN [fs EXCEPT ![req[i].ws].extracccion = Some(JoinLines(c.data))]
                        ELSE fs
             /\ UNCHANGED <<task, pc, apc, delivered>>
        ELSE \* else: yield line + "\n"
             /\ delivered' = [delivered EXCEPT ![i] = Append(@, c)]
             /\ loc' = [loc EXCEPT ![i].lines = Tail(@)]
             /\ UNCHANGED <<task, pc, apc, fs>>
  /\ UNCHANGED <<req, script, taskExc, queue, produced, calls, lastOcr>>
  /\ UNCHANGED storeVars

\* the stream of the extraction service ended without an exception
LegacyEnd(i) ==
  /\ Running(i, "l_read")
  /\ loc[i].lines = <<>>
  /\ Goto(i, "l_llm")
  /\ UNCHANGED <<req, script, task, taskExc, loc, queue, produced, adapterVars,
                 fs, calls, lastOcr>>
  /\ UNCHANGED storeVars

\* data = await call_ollama(prompt); yield the complete event
LegacyStructure(i) ==
  /\ Running(i, "l_llm")
  /\ \E o \in {"object", "non_object", "invalid_json", "http_error", "exception"} :
       IF o \in {"object", "non_object"}
       THEN /\ delivered' = [delivered EXCEPT ![i] =
                               Append(@, [status |-> "complete", data |-> o])]
            /\ task' = [task EXCEPT ![i] = "returned"]
            /\ UNCHANGED taskExc
       ELSE \* HTTPException, json.loads or the request raises: nothing catches it
            /\ Escape(i, <<o>>)
            /\ UNCHANGED delivered
  /\ apc' = [apc EXCEPT ![i] = "closed"]
  /\ Goto(i, "ret")
  /\ calls' = Called(i, "llm")
  /\ UNCHANGED <<req, script, loc, queue, produced, fs, lastOcr>>
  /\ UNCHANGED storeVars

\* process_cif / process_acta: the generator of one request has been started
InitLegacy ==
  /\ InitCommon
  /\ script = [i \in Invs |-> FreeScript]
  /\ fs = [w \in WsIds |-> EmptyDir]
  /\ \E t \in {"cif", "acta"}, f \in {"pdf", "image"} :
       req = [i \in Invs |->
                IF i = "a"
                THEN [kind |-> t, ws |-> "w1", file |-> f,
                      mirror |-> NoInv, after |-> NoInv]
                ELSE Off]

LegacyStart(i) ==
  /\ task[i] = "idle"
  /\ req[i].kind \in {"cif", "acta"}
  /\ task' = [task EXCEPT ![i] = "running"]
  /\ apc' = [apc EXCEPT ![i] = "open"]
  /\ Goto(i, "l_conn")
  /\ UNCHANGED <<req, script, taskExc, loc, queue, produced, delivered, fs, calls,
                 lastOcr>>
  /\ UNCHANGED storeVars

NextLegacy ==
  \E i \in Invs :
    \/ LegacyStart(i)
    \/ LegacyConnect(i)
    \/ LegacyRead(i)
    \/ LegacyEnd(i)
    \/ LegacyStructure(i)

SpecLegacy == InitLegacy /\ [][NextLegacy]_vars

\* ------------------------------------------------ the workspace store

\* the columns of table workspaces other than id and created_at; a value is
\* None (NULL / null) or Some(string)
Fields == {"name", "logo_path", "cif_data", "acta_data", "prices_data",
           "sources", "analysis", "status"}
\* the columns update passes through filter_empty
JsonFields == {"cif_data", "acta_data", "prices_data", "sources", "analysis"}

\* safe_name = ws.name if (ws.name and not re.match(...)) else None
safe_name(name) ==
  LET \* names that match ^\d{10,}$
      LongNumbers == {"1234567890"}
  IN
  IF name = Some("") THEN None
  ELSE IF name[1] \in LongNumbers THEN None
  ELSE name

\* def filter_empty(val)
filter_empty_off(val) == val
filter_empty(val) ==
  IF val \in {None, Some("")} \/ val \in {Some("{}"), Some("[]"), Some("null")}
  THEN None
  ELSE val

\* SQL COALESCE(a, b)
COALESCE(a, b) == IF a # None THEN a ELSE b

\* the INSERT: the row holds the values of the request as they are
Inserted(r) == [f \in Fields |-> r[f]]

\* POST /db/workspaces: INSERT, or UPDATE when the id exists (IntegrityError)
create_workspace(store, r) ==
  LET \* the UPDATE of the except branch
      Updated(old0, r0) ==
        [f \in Fields |->
           COALESCE(IF f = "name" THEN safe_name(r0[f])
                    ELSE IF f \in JsonFields THEN filter_empty(r0[f])
                    ELSE r0[f],
                    old0[f])]
  IN
  IF store[r.id] = None
  THEN [store EXCEPT ![r.id] = Some(Inserted(r))]
  ELSE [store EXCEPT ![r.id] = Some(Updated(store[r.id][1], r))]

\* a Workspace body with only id and name
BlankRequest(id, name) ==
  [id |-> id, name |-> name, logo_path |-> None, cif_data |-> None,
   acta_data |-> None, prices_data |-> None, sources |-> None,
   analysis |-> None, status |-> None]

Upsert(r) ==
  LET pipelineVars == <<req, script, task, taskExc, pc, loc, queue, apc, delivered,
                        produced, fs, calls, lastOcr>>
  IN
  /\ Len(log) < MaxUpserts
  /\ db' = create_workspace(db, r)
  /\ log' = Append(log, [op |-> "upsert", req |-> r, existed |-> db[r.id] # None])
  /\ UNCHANGED pipelineVars

\* DELETE /db/workspaces/{ws_id}: the row is deleted, then the folder of the
\* workspace (a failing rmtree is swallowed)
DeleteWorkspace(w) ==
  /\ Len(log) < MaxUpserts
  /\ db' = [db EXCEPT ![w] = None]
  /\ \E o \in {"ok", "oserror"} :
       fs' = IF o = "ok" THEN [fs EXCEPT ![w] = EmptyDir] ELSE fs
  /\ log' = Append(log, [op |-> "delete", id |-> w])
  /\ UNCHANGED <<req, script, task, taskExc, pc, loc, queue, apc, delivered,
                 produced, calls, lastOcr>>

\* POST /db/bids: INSERT or UPDATE on the table bids, which is no part of the
\* state kept here; the table workspaces is not referred to
CreateBid ==
  /\ Len(log) < MaxUpserts
  /\ log' = Append(log, [op |-> "bid"])
  /\ UNCHANGED <<req, script, task, taskExc, pc, loc, queue, apc, delivered,
                 produced, fs, calls, lastOcr, db>>

\* POST /db/reindex: without a workspaces folder nothing is done; otherwise
\* DELETE FROM workspaces, then one INSERT per folder found, with the columns
\* id, name, logo_path, cif_data, sources, analysis, status.  The folders kept
\* here hold no image and no company JSON file, and their analyses no objeto.
ReindexWorkspaces ==
  LET HasFolder(w) == fs[w] # EmptyDir
      Loads(w) == fs[w].analysis # None /\ "cut_short" \notin DOMAIN fs[w].analysis[1]
      Row(w) ==
        [name |-> Some(w), logo_path |-> None, cif_data |-> None, acta_data |-> None,
         prices_data |-> None,
         sources |-> IF fs[w].source = Some("pdf") THEN Some("[pdf]") ELSE None,
         analysis |-> IF Loads(w) THEN Some("analysis.json") ELSE None,
         status |-> Some("ready")]
  IN
  /\ Len(log) < MaxUpserts
  /\ \E root \in BOOLEAN :
       /\ (\E w \in WsIds : HasFolder(w)) => root
       /\ db' = IF root
                THEN [w \in WsIds |-> IF HasFolder(w) THEN Some(Row(w)) ELSE None]
                ELSE db
       /\ log' = Append(log, [op |-> "reindex", found |-> root])
  /\ UNCHANGED <<req, script, task, taskExc, pc, loc, queue, apc, delivered,
                 produced, fs, calls, lastOcr>>

InitStore ==
  /\ InitCommon
  /\ req = [i \in Invs |-> Off]
  /\ script = [i \in Invs |-> FreeScript]
  /\ fs = [w \in WsIds |-> EmptyDir]

\* the store with the folder of w1 either absent or left by an analysis of a PDF
InitStoreDirs ==
  /\ InitCommon
  /\ req = [i \in Invs |-> Off]
  /\ script = [i \in Invs |-> FreeScript]
  /\ \E d \in {EmptyDir, [EmptyDir EXCEPT !.source = Some("pdf"),
                                          !.analysis = Some(EarlierAnalysis)]} :
       fs = [w \in WsIds |-> IF w = "w1" THEN d ELSE EmptyDir]

NextStore ==
  LET \* the bodies posted to the store: id, name and one more field
      UpsertRequests ==
        LET PlainValues == {None, Some(""), Some("v1"), Some("v2")}
        IN
        LET JsonValues == {None, Some(""), Some("{}"), Some("[]"), Some("null"),
                           Some("v1"), Some("v2")}
        IN
        LET NameValues == {Some("n1"), Some(""), Some("1234567890")}
        IN
        UNION { { [BlankRequest("w1", n) EXCEPT ![f] = v] :
                    v \in (IF f \in JsonFields THEN JsonValues ELSE PlainValues) } :
                n \in NameValues, f \in Fields \ {"name"} }
        \cup { [BlankRequest("w2", Some("n2")) EXCEPT ![f] = Some("v2")] :
                 f \in Fields \ {"name"} }
  IN
  \/ \E r \in UpsertRequests : Upsert(r)
  \/ \E w \in WsIds : DeleteWorkspace(w)
  \/ CreateBid
  \/ ReindexWorkspaces

SpecStore == InitStoreDirs /\ [][NextStore]_vars

\* ------------------------------------------------ identity cross-validation
\* A Python str is the sequence of its characters.

\* unicodedata.normalize("NFKD", s).encode("ascii", "ignore").decode("ascii")
\* followed by s.lower(), on the characters the model uses
FoldMap ==
  ("é" :> "e") @@
  [
   A |-> "a", B |-> "b", C |-> "c", D |-> "d", E |-> "e", F |-> "f", G
   |-> "g", H |-> "h", I |-> "i", J |-> "j", K |-> "k", L |-> "l", M |->
   "m", N |-> "n", O |-> "o", P |-> "p", Q |-> "q", R |-> "r", S |-> "s",
   T |-> "t", U |-> "u", V |-> "v", W |-> "w", X |-> "x", Y |-> "y", Z
   |-> "z"]

\* str.upper()
UpperMap ==
  [
   a |-> "A", b |-> "B", c |-> "C", d |-> "D", e |-> "E", f |-> "F", g
   |-> "G", h |-> "H", i |-> "I", j |-> "J", k |-> "K", l |-> "L", m |->
   "M", n |-> "N", o |-> "O", p |-> "P", q |-> "Q", r |-> "R", s |-> "S",
   t |-> "T", u |-> "U", v |-> "V", w |-> "W", x |-> "X", y |-> "Y", z
   |-> "Z"]

Digits == {"0", "1", "2", "3", "4", "5", "6", "7", "8", "9"}
\* [a-z0-9], on a folded string
Lowercase == {FoldMap[c] : c \in DOMAIN FoldMap}
IsAlnum(c) == c \in Lowercase \/ c \in Digits
\* \b between s[k-1] and s[k]
Boundary(s, k) ==
  LET IsWordAt(s0, k0) ==
        LET \* \w
            IsWord(c) == IsAlnum(c) \/ c \in DOMAIN FoldMap \/ c = "_"
        IN
                        IF k0 >= 1 /\ k0 <= Len(s0) THEN IsWord(s0[k0]) ELSE FALSE
  IN
                  IsWordAt(s, k - 1) # IsWordAt(s, k)

\* the patterns of _normalize_name without their \b: "DOT?" is \.?, "SP+" is
\* \s+, any other element is that character
patterns ==
  <<
     <<"s", "DOT?", "a", "DOT?", "SP+", "d", "e", "SP+", "c", "DOT?", "v",
       "DOT?">>,
     <<"s", "o", "c", "i", "e", "d", "a", "d", "SP+", "a", "n", "o", "n",
       "i", "m", "a">>,
     <<"s", "o", "c", "i", "e", "d", "a", "d", "SP+", "d", "e", "SP+", "r",
       "e", "s", "p", "o", "n", "s", "a", "b", "i", "l", "i", "d", "a", "d",
       "SP+", "l", "i", "m", "i", "t", "a", "d", "a">>,
     <<"s", "DOT?", "SP+", "d", "e", "SP+", "r", "DOT?", "l", "DOT?",
       "SP+", "d", "e", "SP+", "c", "DOT?", "v", "DOT?">>,
     <<"s", "a", "p", "i", "SP+", "d", "e", "SP+", "c", "DOT?", "v",
       "DOT?">>,
     <<"d", "e", "SP+", "c", "DOT?", "v", "DOT?">>,
     <<"s", "DOT?", "a", "DOT?">>,
     <<"s", "DOT?", "SP+", "d", "e", "SP+", "r", "DOT?", "l", "DOT?">>
  >>

RECURSIVE SpacesFrom(_, _)
SpacesFrom(s, k) == IF k <= Len(s) /\ s[k] = " " THEN 1 + SpacesFrom(s, k + 1) ELSE 0

\* the index of the last character of the match of elements e.. of pat that
\* starts at s[k] and ends at a \b, 0 when there is none (greedy, backtracking)
RECURSIVE MatchEnd(_, _, _, _)
MatchEnd(s, k, pat, e) ==
  IF e > Len(pat) THEN (IF Boundary(s, k) THEN k - 1 ELSE 0)
  ELSE IF pat[e] = "DOT?"
  THEN IF k <= Len(s) /\ s[k] = "."
       THEN LET taken == MatchEnd(s, k + 1, pat, e + 1)
            IN IF taken # 0 THEN taken ELSE MatchEnd(s, k, pat, e + 1)
       ELSE MatchEnd(s, k, pat, e + 1)
  ELSE IF pat[e] = "SP+"
  THEN IF SpacesFrom(s, k) = 0 THEN 0
       ELSE MatchEnd(s, k + SpacesFrom(s, k), pat, e + 1)
  ELSE IF k <= Len(s) /\ s[k] = pat[e] THEN MatchEnd(s, k + 1, pat, e + 1)
  ELSE 0

\* re.sub(r"\b" + pat + r"\b", "", s) from position k on
RECURSIVE SubFrom(_, _, _)
SubFrom(s, k, pat) ==
  IF k > Len(s) THEN <<>>
  ELSE LET end == IF Boundary(s, k) THEN MatchEnd(s, k, pat, 1) ELSE 0
       IN IF end # 0 THEN SubFrom(s, end + 1, pat)
          ELSE <<s[k]>> \o SubFrom(s, k + 1, pat)

\* for p in patterns: s = re.sub(p, "", s)
RECURSIVE SubAll(_, _)
SubAll(s, n) == IF n > Len(patterns) THEN s ELSE SubAll(SubFrom(s, 1, patterns[n]), n + 1)

\* re.sub(r"[^a-z0-9]+", " ", s) and re.sub(r"\s+", " ", s)
RECURSIVE Collapse(_)
Collapse(s) ==
  IF s = <<>> THEN <<>>
  ELSE LET c == IF IsAlnum(Head(s)) THEN Head(s) ELSE " "
           r == Collapse(Tail(s))
       IN IF c = " " /\ r # <<>> /\ Head(r) = " " THEN r ELSE <<c>> \o r

\* str.strip()
RECURSIVE Strip(_)
Strip(s) ==
  IF s = <<>> THEN <<>>
  ELSE IF Head(s) = " " THEN Strip(Tail(s))
  ELSE IF s[Len(s)] = " " THEN Strip(SubSeq(s, 1, Len(s) - 1))
  ELSE s

normalize_unfolded(s) == Strip(Collapse(SubAll(s, 1)))
normalize_name(s) ==
  LET FoldAll(s0) ==
        LET Fold(c) == IF c \in DOMAIN FoldMap THEN FoldMap[c] ELSE c
        IN
                    [k \in 1..Len(s0) |-> Fold(s0[k])]
  IN
                     Strip(Collapse(SubAll(FoldAll(s), 1)))

\* SequenceMatcher.find_longest_match(alo, ahi, blo, bhi) without junk: the
\* longest block a[i..i+k-1] = b[j..j+k-1], the one earliest in a, then in b
Blocks(a, alo, ahi, b, blo, bhi) ==
  { t \in (alo..ahi) \X (blo..bhi) \X (1..(ahi - alo + 1)) :
      /\ t[1] + t[3] - 1 <= ahi
      /\ t[2] + t[3] - 1 <= bhi
      /\ \A d \in 0..(t[3] - 1) : a[t[1] + d] = b[t[2] + d] }

\* the number of matching characters (the sum of get_matching_blocks sizes)
RECURSIVE Matching(_, _, _, _, _, _)
Matching(a, alo, ahi, b, blo, bhi) ==
  IF alo > ahi \/ blo > bhi THEN 0
  ELSE LET B == Blocks(a, alo, ahi, b, blo, bhi)
       IN IF B = {} THEN 0
          ELSE LET \* find_longest_match: the longest block, the earliest in a, then in b
                   t == CHOOSE t0 \in B :
                          \A u \in B :
                            \/ u[3] < t0[3]
                            \/ u[3] = t0[3] /\ (t0[1] < u[1]
                                                \/ (t0[1] = u[1] /\ t0[2] <= u[2]))
               IN t[3] + Matching(a, alo, t[1] - 1, b, blo, t[2] - 1)
                       + Matching(a, t[1] + t[3], ahi, b, t[2] + t[3], bhi)

\* SequenceMatcher(None, a, b).ratio() = 2.0 * M / T, kept as the fraction
similarity(a, b) ==
  IF Len(a) + Len(b) = 0 THEN [num |-> 1, den |-> 1]
  ELSE [num |-> 2 * Matching(a, 1, Len(a), b, 1, Len(b)), den |-> Len(a) + Len(b)]

\* sim < 0.85
SimThresholdPct == 85

\* estado
estado_any(inconsistencias) == IF inconsistencias # <<>> THEN "block" ELSE "ok"
estado(inconsistencias) ==
  IF \E k \in 1..Len(inconsistencias) : inconsistencias[k].severidad = "alta" THEN "block"
  ELSE IF inconsistencias # <<>> THEN "warning"
  ELSE "ok"

\* the strings the validated records are drawn from
\* the names of the spec's example
AcmeLong ==
  <<"A", "C", "M", "E", " ", "S", ".", "A", ".", " ", "d", "e", " ", "C", ".", "V", ".">>
AcmeShort == <<"a", "c", "m", "e", " ", "s", "a", " ", "d", "e", " ", "c", "v">>

RazonSocialValues ==
  {
   <<"A", "C", "M", "E", " ", "S", ".", "A", ".", " ", "d", "e", " ", "C", ".", "V", ".">>,
   <<"a", "c", "m", "e", " ", "s", "a", " ", "d", "e", " ", "c", "v">>,
   <<"A", "c", "m", "é">>,
   <<"A", "c", "m", "e", "s", " ", "S", ".", "A", ".">>,
   <<"B", "E", "T", "A", " ", "S", ".", "A", ".">>,
   <<"A", "c", "m", "e", " ", "B", "e", "t", "a">>,
   <<"S", ".", "A", ".", " ", "d", "e", " ", "C", ".", "V", ".">>,
   <<>>
  }
RfcValues == {<<>>, <<"A", "A", "A">>, <<"a", "a", "a", " ">>, <<"B", "B", "B">>}
RepValues == {<<>>, <<"J", "u", "a", "n">>}

CifObjects ==
  [rfc : RfcValues, razon_social : RazonSocialValues, representante_legal : RepValues]
ActaObjects ==
  [rfc : RfcValues, razon_social : RazonSocialValues, representante : RepValues]

\* JSON: an object is a function from its keys, its text is a string.
\* json.dumps writes the one canonical text of an object; json.loads reads a
\* text back (None: it raises or gives no object).
EmptyObject == << >>
json_dumps(o) == IF DOMAIN o = {} THEN "{}" ELSE ToString(o)

\* process_context on the object the LLM returned:
\* if "representante" in o and "representante_legal" not in o: copy it
Normalized(o) ==
  IF "representante" \in DOMAIN o /\ "representante_legal" \notin DOMAIN o
  THEN [k \in DOMAIN o \cup {"representante_legal"} |->
          IF k = "representante_legal" THEN o["representante"] ELSE o[k]]
  ELSE o

\* the dict put in place of a reply that is no JSON object
CifFormatError ==
  [razon_social |-> <<"E", "r", "r", "o", "r", " ", "e", "n", " ", "f", "o", "r", "m", "a", "t", "o", " ", "C", "I", "F">>,
   rfc |-> <<"E", "R", "R", "O", "R">>]
ActaFormatError ==
  [razon_social |-> <<"E", "r", "r", "o", "r", " ", "e", "n", " ", "f", "o", "r", "m", "a", "t", "o">>,
   representante_legal |-> <<"E", "R", "R", "O", "R">>,
   cargo |-> <<"E", "R", "R", "O", "R">>]

\* LegalExtractor.extract_from_text: the values its patterns find in the text
\* (every key it finds nothing for is ""). The text of the model's documents
\* holds an RFC and no company name the patterns recognise.
DocText == "text"
extract_from_text(text) ==
  IF text = "" THEN [razon_social |-> <<>>, rfc |-> <<>>]
  ELSE [razon_social |-> <<>>, rfc |-> <<"B", "B", "B">>]
\* for k, v in rx.items(): if v and (k not in acta_json or not acta_json.get(k))
MergeRx(o, rx) ==
  LET taken == {k \in DOMAIN rx :
                  /\ rx[k] # <<>>
                  /\ (IF k \in DOMAIN o THEN o[k] = <<>> ELSE TRUE)}
  IN [k \in DOMAIN o \cup taken |-> IF k \in taken THEN rx[k] ELSE o[k]]

JsonObjects ==
  LET base == CifObjects \cup ActaObjects
                \cup {EmptyObject, CifFormatError, ActaFormatError}
      norm == base \cup {Normalized(o) : o \in base}
  IN norm \cup {MergeRx(o, extract_from_text(DocText)) : o \in norm}
JsonTable == [t \in {json_dumps(o) : o \in JsonObjects} |->
                CHOOSE o \in JsonObjects : json_dumps(o) = t]
json_loads(text) == IF text \in DOMAIN JsonTable THEN Some(JsonTable[text]) ELSE None

\* json.loads(ws.get(key) or "{}") inside try / except: {}
Decoded(value) ==
  IF value \in {None, Some("")} THEN EmptyObject
  ELSE IF json_loads(value[1]) = None THEN EmptyObject
  ELSE json_loads(value[1])[1]

\* the workspace row as IdentityValidatorAgent.execute gets it ({} unless the
\* store answers 200)
FetchedRow(store, w, get) ==
  IF get = "ok" /\ store[w] # None THEN store[w][1]
  ELSE [f \in Fields |-> None]

\* IdentityValidatorAgent.execute: the result, the workspace directory with
\* inconsistencias.json (a failed write is only logged) and the store after
\* the validator's upsert
execute(store, dir, w, get, write, post) ==
  LET \* the validator's own upsert of the workspace (a failure is only logged)
      ValidatorPost(store0, w0, post0) ==
        IF post0 = "ok" THEN create_workspace(store0, BlankRequest(w0, Some(w0))) ELSE store0
  IN
  LET \* IdentityValidatorAgent.execute, from the decoded cif_data and acta_data on
      Validation(cif, acta) ==
        LET Inconsistency(kind, severidad) == [tipo |-> "identidad", severidad |-> severidad, sobre |-> kind]
        IN
        LET \* str(d.get(key) or "").strip()
            Field(d, key) == IF key \in DOMAIN d THEN Strip(d[key]) ELSE <<>>
        IN
        LET LowSimilarity(sim) == sim.num * 100 < SimThresholdPct * sim.den
        IN
        LET Upper(s) == [k \in 1..Len(s) |-> IF s[k] \in DOMAIN UpperMap THEN UpperMap[s[k]] ELSE s[k]]
        IN
        LET rfc_cif == Upper(Field(cif, "rfc"))
            rfc_acta == Upper(Field(acta, "rfc"))
            rs_cif == Field(cif, "razon_social")
            rs_acta == Field(acta, "razon_social")
            rep_cif == Field(cif, "representante_legal")
            rep_acta == IF "representante" \in DOMAIN acta /\ acta["representante"] # <<>>
                        THEN Field(acta, "representante")
                        ELSE Field(acta, "representante_legal")
            norm_cif == normalize_name(rs_cif)
            norm_acta == normalize_name(rs_acta)
            sim == IF norm_cif # <<>> /\ norm_acta # <<>>
                   THEN Some(similarity(norm_cif, norm_acta)) ELSE None
            inconsistencias ==
              (IF rfc_cif # <<>> /\ rfc_acta # <<>> /\ rfc_cif # rfc_acta
               THEN <<Inconsistency("rfc", "alta")>> ELSE <<>>)
              \o (IF sim # None /\ LowSimilarity(sim[1])
                  THEN <<Inconsistency("razon_social", "media")>> ELSE <<>>)
              \o (IF rep_acta = <<>> /\ rep_cif # <<>>
                  THEN <<Inconsistency("representante", "baja")>> ELSE <<>>)
        IN [comparacion |-> [rfc_cif |-> rfc_cif, rfc_acta |-> rfc_acta,
                             razon_social_cif |-> rs_cif, razon_social_acta |-> rs_acta,
                             similitud_razon_social |-> sim,
                             representante_cif |-> rep_cif, representante_acta |-> rep_acta],
            inconsistencias |-> inconsistencias,
            estado |-> estado(inconsistencias)]
  IN
  LET row == FetchedRow(store, w, get)
      result == Validation(Decoded(row.cif_data), Decoded(row.acta_data))
  IN [result |-> result,
      dir |-> IF write = "ok" THEN [dir EXCEPT !.inconsistencias = Some(result)] ELSE dir,
      db |-> ValidatorPost(store, w, post)]

\* POST /api/validate-identity
ValidateIdentity(w) ==
  /\ Len(log) < MaxUpserts
  /\ \E get \in {"ok", "fail"}, write \in {"ok", "oserror"}, post \in {"ok", "fail"} :
       LET row == FetchedRow(db, w, get)
           Served(v) ==
             /\ fs' = [fs EXCEPT ![w] = v.dir]
             /\ db' = v.db
             /\ log' = Append(log, [op |-> "validate", ws |-> w,
                                    cif |-> Decoded(row.cif_data),
                                    acta |-> Decoded(row.acta_data),
                                    resp |-> [status |-> "success", data |-> v.result]])
       IN Served(execute(db, fs[w], w, get, write, post))
  /\ UNCHANGED <<req, script, task, taskExc, pc, loc, queue, apc, delivered,
                 produced, calls, lastOcr>>

\* the workspace is synchronised with both documents' data before validating
SyncIdentity(w) ==
  /\ log = <<>>
  /\ \E cif \in CifObjects, acta \in ActaObjects :
       Upsert([BlankRequest(w, Some("n1")) EXCEPT !.cif_data = Some(json_dumps(cif)),
                                                 !.acta_data = Some(json_dumps(acta))])

NextValidate == \E w \in {"w1"} : SyncIdentity(w) \/ ValidateIdentity(w)

SpecValidate == InitStore /\ [][NextValidate]_vars

\* ------------------------------------------- identity-document ingestion
\* POST /api/process-context with type cif or acta.
MaxCalls == 2

\* direct_text: the decoded content of a .txt upload, nothing otherwise
direct_text(f) == IF f = "txt" THEN DocText ELSE ""

DataField(t) == IF t = "cif" THEN "cif_data" ELSE "acta_data"
FreshMsg(t) == IF t = "cif" THEN "CIF procesado y vinculado."
               ELSE "Acta Constitutiva procesada y vinculada."
CachedMsgAsFresh(t) == FreshMsg(t)
CachedMsg(t) == IF t = "cif" THEN "CIF reutilizado desde cache."
                ELSE "Acta reutilizada desde cache."

Reply(status, msg, data, validation) ==
  [status |-> status, msg |-> msg, data |-> data, validation |-> validation]
\* an exception that leaves the handler
Unhandled == Reply("500", "Internal Server Error", None, None)

\* what one call did: its response, the store and the directory after it, the
\* requests it made to the OCR and to the LLM, whether it validated, whether
\* it answered from the stored data
Outcome(resp, store, dir, ocr, llm, validated, cached) ==
  [resp |-> resp, db |-> store, dir |-> dir, ocr |-> ocr, llm |-> llm,
   validated |-> validated, cached |-> cached]

\* the handler up to the LLM request
Acquired(store, dir, w, t, f, force, env) ==
  LET \* the text of the document: the extraction file when it exists and force is
      \* off, otherwise the OCR's, then written to the extraction file
      Extracted(dir0, force0, env0) ==
        IF dir0.extraccion # None /\ ~force0
        THEN [text |-> dir0.extraccion[1], dir |-> dir0, ocr |-> 0, raised |-> FALSE]
        ELSE IF env0.ocr = "raise"
        THEN [text |-> "", dir |-> dir0, ocr |-> 1, raised |-> TRUE]
        ELSE LET text == IF env0.ocr = "text" THEN DocText ELSE ""
             IN [text |-> text,
                 dir |-> IF env0.exwrite = "ok" THEN [dir0 EXCEPT !.extraccion = Some(text)] ELSE dir0,
                 ocr |-> 1, raised |-> FALSE]
  IN
  LET \* the acta branch makes the cache check only when there is no direct text
      ChecksCache(t0, f0) == t0 = "cif" \/ direct_text(f0) = ""
  IN
  LET \* the cache check finds a stored result it can decode
      CacheHit(store0, w0, t0, force0, env0) ==
        /\ ~force0
        /\ env0.store = "up"
        /\ store0[w0] # None
        /\ store0[w0][1][DataField(t0)] \notin {None, Some("")}
        /\ json_loads(store0[w0][1][DataField(t0)][1]) # None
  IN
  IF ChecksCache(t, f) /\ CacheHit(store, w, t, force, env)
  THEN [hit |-> TRUE, text |-> "", dir |-> dir, ocr |-> 0, raised |-> FALSE]
  ELSE IF direct_text(f) # ""
  THEN [hit |-> FALSE, text |-> direct_text(f), dir |-> dir, ocr |-> 0, raised |-> FALSE]
  ELSE [hit |-> FALSE] @@ Extracted(dir, force, env)

\* structured anew from the text, up to the validation
Fresh(store, dir, w, t, text, ocr, env) ==
  LET \* the structured data made of the LLM's reply (the values of the model's
      \* replies are strings, so the joining of dict values changes nothing)
      Structured(t0, raw0, text0) ==
        LET parsed == json_loads(raw0)
            o == IF parsed # None THEN Normalized(parsed[1])
                 ELSE IF t0 = "cif" THEN CifFormatError ELSE ActaFormatError
        IN IF t0 = "cif" THEN o ELSE MergeRx(o, extract_from_text(text0))
  IN
  LET Failure(msg) == Reply("error", msg, None, None)
  IN
  LET \* the return reached when the LLM does not answer 200
      Non200Msg(t0) == IF t0 = "cif" THEN "Tipo de contexto no soportado."
                      ELSE "Error procesando inteligencia del Acta."
  IN
  IF t = "cif" /\ text = ""
  THEN Outcome(Failure("No se pudo leer el CIF."), store, dir, ocr, 0, FALSE, FALSE)
  ELSE IF env.llm = "raise"
  THEN Outcome(Unhandled, store, dir, ocr, 1, FALSE, FALSE)
  ELSE IF env.llm = "non200"
  THEN Outcome(Failure(Non200Msg(t)), store, dir, ocr, 1, FALSE, FALSE)
  ELSE IF env.store = "down"
  THEN Outcome(Unhandled, store, dir, ocr, 1, FALSE, FALSE)
  ELSE LET o == Structured(t, env.llm, text)
           posted == create_workspace(store,
                       [BlankRequest(w, Some(w)) EXCEPT ![DataField(t)] = Some(json_dumps(o))])
       IN Outcome(Reply("success", FreshMsg(t), Some(o), None),
                  posted, dir, ocr, 1, TRUE, FALSE)

process_context(store, dir, w, t, f, force, env) ==
  LET saved == [dir EXCEPT !.source = Some(f)]
      got == Acquired(store, saved, w, t, f, force, env)
      \* answered from the stored data, up to the validation
      cached == Outcome(Reply("success", CachedMsg(t),
                              json_loads(store[w][1][DataField(t)][1]), None),
                        store, saved, 0, 0, TRUE, TRUE)
      out == IF got.hit THEN cached
             ELSE IF got.raised
             THEN Outcome(Unhandled, store, got.dir, got.ocr, 0, FALSE, FALSE)
             ELSE Fresh(store, got.dir, w, t, got.text, got.ocr, env)
      \* both successful returns come after identity_validator.execute
      Validated(o, v) ==
        IF o.validated
        THEN [o EXCEPT !.resp.validation = Some(v.result), !.db = v.db, !.dir = v.dir]
        ELSE o
  IN Validated(out, execute(out.db, out.dir, w, "ok", "ok", "ok"))

ProcessContext(w) ==
  LET \* a collaborator the call does not reach has one outcome
      Reached(store0, dir0, w0, t0, f0, force0, env0) ==
        LET got == Acquired(store0, dir0, w0, t0, f0, force0, env0)
        IN /\ got.ocr = 0 => (env0.ocr = "text" /\ env0.exwrite = "ok")
           /\ env0.ocr = "raise" => env0.exwrite = "ok"
           /\ (got.hit \/ got.raised \/ (t0 = "cif" /\ got.text = "")) => env0.llm = "non200"
  IN
  LET \* the collaborators during one call: the store reachable or not, the OCR
      \* stream (a text, no complete event, an exception), the write of the
      \* extraction file, the LLM (a reply, a status other than 200, an exception)
      ContextEnvs(t) ==
        LET \* the replies of the LLM with status 200: two objects (one naming the
            \* representative under "representante"), the empty object, and no JSON
            ContextReplies(t0) ==
              IF t0 = "cif"
              THEN {json_dumps([rfc |-> <<"A", "A", "A">>, razon_social |-> AcmeLong,
                                representante_legal |-> <<"J", "u", "a", "n">>]),
                    json_dumps([rfc |-> <<"B", "B", "B">>, razon_social |-> AcmeShort,
                                representante |-> <<"J", "u", "a", "n">>]),
                    "{}", "no json"}
              ELSE {json_dumps([rfc |-> <<"A", "A", "A">>, razon_social |-> AcmeShort,
                                representante |-> <<"J", "u", "a", "n">>]),
                    json_dumps([rfc |-> <<>>, razon_social |-> <<"B", "E", "T", "A", " ", "S", ".", "A", ".">>,
                                representante |-> <<>>]),
                    "{}", "no json"}
        IN
        [store : {"up", "down"}, ocr : {"text", "empty", "raise"},
         exwrite : {"ok", "oserror"}, llm : ContextReplies(t) \cup {"non200", "raise"}]
  IN
  LET \* the upload: a scanned document, or a .txt file with the document's text
      UploadKinds == {"pdf", "txt"}
  IN
  LET ContextTypes == {"cif", "acta"}
  IN
  /\ Len(log) < MaxCalls
  /\ \E t \in ContextTypes, f \in UploadKinds, force \in BOOLEAN :
       \E env \in ContextEnvs(t) :
         /\ Reached(db, fs[w], w, t, f, force, env)
         /\ LET Served(out) ==
                  /\ db' = out.db
                  /\ fs' = [fs EXCEPT ![w] = out.dir]
                  /\ log' = Append(log, [op |-> "context", ws |-> w, type |-> t, file |-> f,
                                         force |-> force, store |-> env.store,
                                         stored |-> IF db[w] = None THEN None
                                                    ELSE db[w][1][DataField(t)],
                                         ocr |-> out.ocr, llm |-> out.llm,
                                         validated |-> out.validated,
                                         cached |-> out.cached, resp |-> out.resp])
            IN Served(process_context(db, fs[w], w, t, f, force, env))
  /\ UNCHANGED <<req, script, task, taskExc, pc, loc, queue, apc, delivered,
                 produced, calls, lastOcr>>

\* the workspace is new, or was created by a sync with its name alone
InitContext ==
  /\ InitIdle
  /\ db \in {[w \in WsIds |-> None],
             [w \in WsIds |-> IF w = "w1" THEN Some(Inserted(BlankRequest("w1", Some("n1"))))
                              ELSE None]}
  /\ req = [i \in Invs |-> Off]
  /\ script = [i \in Invs |-> FreeScript]
  /\ fs = [w \in WsIds |-> EmptyDir]

NextContext == \E w \in {"w1"} : ProcessContext(w)

SpecContext == InitContext /\ [][NextContext]_vars

\* ------------------------------------------------------------------- claims
Closed(i) == apc[i] = "closed"
Last(s) == s[Len(s)]
Terminals(s) == {k \in 1..Len(s) : IsTerminal(s[k])}
Errors(s) == {k \in 1..Len(s) : s[k].status = "error"}
\* the events of a stream that the adapter took from the queue: its own event
\* is the only one with status error and no agent key
Forwarded(i) == SelectSeq(delivered[i], LAMBDA e : ~(e.status = "error" /\ e.agent = None))

\* C1: the events delivered for an invocation never hold more than one
\* terminal event (complete or error), nothing is delivered after it, and a
\* stream that has ended holds exactly one.
C1_OneTerminalEvent ==
  \A i \in Invs :
    /\ Cardinality(Terminals(delivered[i])) <= 1
    /\ \A k \in Terminals(delivered[i]) : k = Len(delivered[i])
    /\ Closed(i) => Cardinality(Terminals(delivered[i])) = 1

C1_Witness ==
  /\ Closed("a")
  /\ Len(delivered["a"]) >= 3
  /\ Last(delivered["a"]).status = "complete"

\* C2: what the adapter has forwarded, followed by what still waits in the
\* queue, is at every moment the sequence passed to the emit callback; when the
\* stream has ended every emitted event was delivered, once and in order.
C2_OrderPreserved ==
  \A i \in Invs :
    /\ Forwarded(i) \o queue[i] = produced[i]
    /\ Closed(i) => Forwarded(i) = produced[i]

C2_Witness ==
  /\ Closed("a")
  /\ Len(produced["a"]) >= 4
  /\ delivered["a"] = produced["a"]

\* C3: the forwarding loop is left only when the task is done and the queue is
\* empty, and the event enqueued last has then been forwarded.
C3_DrainedAtExit ==
  \A i \in Invs :
    apc[i] \in {"final", "closed"} =>
      /\ TaskDone(i)
      /\ queue[i] = <<>>
      /\ produced[i] # <<>> =>
           /\ Forwarded(i) # <<>>
           /\ Last(Forwarded(i)) = Last(produced[i])

C3_Witness ==
  /\ Closed("a")
  /\ task["a"] = "returned"
  /\ produced["a"] # <<>>
  /\ Last(delivered["a"]) = Last(produced["a"])

\* C4: when the stream has ended, a task that ended with an exception has got
\* exactly one more event than it emitted, the last one, of status error and
\* with the exception's message; a task that returned has got none added; and
\* the last event of the stream is a terminal one.
C4_SynthesizedError ==
  \A i \in Invs :
    Closed(i) =>
      /\ IF task[i] = "raised"
         THEN delivered[i] = produced[i] \o <<Event("error", None, None, taskExc[i])>>
         ELSE delivered[i] = produced[i]
      /\ delivered[i] # <<>>
      /\ IsTerminal(Last(delivered[i]))

C4_Witness ==
  /\ Closed("a")
  /\ task["a"] = "raised"
  /\ Len(delivered["a"]) >= 3
  /\ Last(delivered["a"]).status = "error"
  /\ Last(delivered["a"]).msg = taskExc["a"]

\* C5: the val fields of the events delivered in one invocation, in delivery
\* order, never decrease.
Vals(s) == SelectSeq(s, LAMBDA e : e.val # None)
NonDecreasing(s) ==
  \A j, k \in 1..Len(s) : j < k => s[j].val[1] <= s[k].val[1]

C5_ProgressMonotone == \A i \in Invs : NonDecreasing(Vals(delivered[i]))

\* C6: when all max_retries connection attempts failed with ConnectError or
\* ConnectTimeout, the pipeline emits exactly one error event ...
ConnFailures == {"ConnectError", "ConnectTimeout"}
Exhausted(i) ==
  /\ req[i].kind = "analysis"
  /\ calls[i].ocr = max_retries
  /\ lastOcr[i] \in ConnFailures
  /\ task[i] = "returned"
Contains(msg, tok) == \E k \in 1..Len(msg) : msg[k] = tok

\* ... whose msg states the attempt count and the last underlying error
\* (the claim as written).
C6_MsgStatesAttemptCount ==
  \A i \in Invs :
    Exhausted(i) =>
      /\ Cardinality(Errors(produced[i])) = 1
      /\ \A k \in Errors(produced[i]) :
           /\ Contains(produced[i][k].msg, ToString(max_retries))
           /\ Contains(produced[i][k].msg, lastOcr[i])

\* ... whose msg says that several attempts failed and names the last
\* underlying error, without the number of attempts (the claim as amended).
C6_MsgStatesSeveralAttempts ==
  \A i \in Invs :
    Exhausted(i) =>
      /\ Cardinality(Errors(produced[i])) = 1
      /\ Last(produced[i]).status = "error"
      /\ Last(produced[i]).msg = <<"Fallo en ocr tras varios intentos: ", lastOcr[i]>>
      /\ Closed(i) => Cardinality(Errors(delivered[i])) = 1

C6_Witness ==
  /\ Exhausted("a")
  /\ Closed("a")
  /\ lastOcr["a"] = "ConnectTimeout"
  /\ Last(delivered["a"]).status = "error"

\* C7: an analysis whose first two connection attempts were refused and whose
\* third was accepted delivers, the retry notices apart, the events of the
\* analysis whose first attempt was accepted, leaves the same files, and ends
\* with complete (carrying the same analysis) whenever that one does.
IsRetryNotice(e) == \E n \in 0..(max_retries - 1) : e = RetryNotice(n)
WithoutRetryNotices(s) == SelectSeq(s, LAMBDA e : ~IsRetryNotice(e))
RetryNotices(s) == SelectSeq(s, IsRetryNotice)

\* the extraction service refuses the first two connections of i and accepts
\* the third
RefusedTwice(i) ==
  /\ script[i].conn # None
  /\ Len(script[i].conn[1]) = max_retries
  /\ \A n \in 1..(max_retries - 1) : script[i].conn[1][n] \in ConnFailures
  /\ script[i].conn[1][max_retries] = "ok"

C7_RetryIsTransparent ==
  (Closed("a") /\ Closed("b") /\ RefusedTwice("a") /\ script["b"].conn = Some(<<"ok">>)) =>
     /\ calls["a"].ocr = (IF calls["b"].ocr = 1 THEN max_retries ELSE 0)
     /\ calls["b"].ocr <= 1
     /\ Len(RetryNotices(delivered["a"])) = (IF calls["b"].ocr = 1 THEN max_retries - 1 ELSE 0)
     /\ WithoutRetryNotices(delivered["a"]) = delivered["b"]
     /\ Last(delivered["a"]) = Last(delivered["b"])
     /\ fs[req["a"].ws] = fs[req["b"].ws]

C7_Witness ==
  /\ Closed("a") /\ Closed("b")
  /\ calls["a"].ocr = max_retries
  /\ lastOcr["a"] = "ok"
  /\ Last(delivered["a"]).status = "complete"
  /\ Last(delivered["b"]).status = "complete"
  /\ Len(delivered["a"]) = Len(delivered["b"]) + 2
  /\ fs["w1"].extraccion # None

\* C8: the extraction service is called at most max_retries times; a call
\* that is not the first follows a ConnectError or ConnectTimeout of the call
\* before it; after a non-200 response, a line that is no JSON or any other
\* exception the stage has failed with "Fallo en ocr: ..." and control is in
\* the pipeline's except branch or past it.
OcrHardFailures == {"http_error", "decode_error", "read_error", "ReadTimeout"}

C8_RetryPolicy ==
  /\ [](\A i \in Invs :
          /\ calls[i].ocr <= max_retries
          /\ lastOcr[i] \in OcrHardFailures =>
               /\ pc[i] \in {"handler", "ret"}
               /\ SubSeq(loc[i].exc, 1, 1) = <<"Fallo en ocr: ">>)
  /\ [][\A i \in Invs :
          calls'[i].ocr # calls[i].ocr =>
            /\ calls'[i].ocr = calls[i].ocr + 1
            /\ calls[i].ocr > 0 => lastOcr[i] \in ConnFailures]_vars

C8_Witness ==
  /\ calls["a"].ocr = 2
  /\ lastOcr["a"] = "http_error"
  /\ task["a"] = "returned"
  /\ Last(produced["a"]).status = "error"

\* C9: in a generation where nothing but LLM or render calls failed, every
\* requested document was attempted, the pipeline ends with a complete event
\* whose generated_docs are the rendered documents in request order, and no
\* error event is emitted.
Requested(i) == TechAnexos(loc[i].analysis[1]) \o EconAnexos(loc[i].analysis[1])
OtherFailures ==
  {<<"OSError">>,
   <<"No se encontro un analisis previo. Por favor analice las bases primero.">>}
RenderedNames(i) ==
  LET r == Requested(i)
      pairs == [k \in 1..Len(loc[i].outcomes) |-> [name |-> r[k], o |-> loc[i].outcomes[k]]]
      ok == SelectSeq(pairs, LAMBDA x : x.o = "ok")
  IN [k \in 1..Len(ok) |-> ok[k].name \o <<".docx">>]

C9_PartialFailureCompletes ==
  \A i \in Invs :
    (req[i].kind = "generation" /\ task[i] = "returned" /\ loc[i].exc \notin OtherFailures) =>
       /\ Len(loc[i].outcomes) = Len(Requested(i))
       /\ calls[i].llm = Len(Requested(i))
       /\ Last(produced[i]).status = "complete"
       /\ Last(produced[i]).docs = Some(RenderedNames(i))
       /\ Errors(produced[i]) = {}
       /\ Closed(i) => Errors(delivered[i]) = {}

C9_Witness ==
  /\ req["a"].kind = "generation"
  /\ Closed("a")
  /\ Len(loc["a"].outcomes) = 3
  /\ loc["a"].outcomes[1] = "ok"
  /\ loc["a"].outcomes[2] = "docx_failed"
  /\ loc["a"].outcomes[3] = "ok"
  /\ Last(delivered["a"]).status = "complete"
  /\ Len(Last(delivered["a"]).docs[1]) = 2

\* C10: a generation for a workspace without analysis.json emits one event
\* only, an error; it calls neither the workspace store nor the LLM nor the
\* render service, writes no folder and no document, and its task returns.
C10_NoAnalysisNoWork ==
  \A i \in Invs :
    (req[i].kind = "generation" /\ fs[req[i].ws].analysis = None) =>
       /\ calls[i] = NoCalls
       /\ fs[req[i].ws].folder = None
       /\ fs[req[i].ws].docs = <<>>
       /\ task[i] # "raised"
       /\ Len(produced[i]) <= 1
       /\ pc[i] \in {"idle", "load", "handler", "ret"}
       /\ pc[i] = "ret" => (Len(produced[i]) = 1 /\ produced[i][1].status = "error")
       /\ Closed(i) => (Len(delivered[i]) = 1 /\ delivered[i][1].status = "error"
                        /\ task[i] = "returned")

C10_Witness ==
  /\ req["a"].kind = "generation"
  /\ fs["w1"].analysis = None
  /\ Closed("a")
  /\ Len(delivered["a"]) = 1
  /\ delivered["a"][1].status = "error"

\* C11: whenever an analysis has emitted complete, the source file and
\* analysis.json (holding the analysis the event carries) are in the workspace
\* directory; and a generation for that workspace never takes the
\* analysis-missing branch once the complete event was delivered.
CompleteIn(s) == \E k \in 1..Len(s) : s[k].status = "complete"

C11_WrittenBeforeComplete ==
  /\ [](\A i \in Invs :
          (req[i].kind = "analysis" /\ CompleteIn(produced[i])) =>
             /\ fs[req[i].ws].source = Some(req[i].file)
             /\ fs[req[i].ws].analysis # None
             /\ Last(produced[i]).analysis = fs[req[i].ws].analysis)
  /\ [][\A i, j \in Invs :
          (/\ req[i].kind = "analysis" /\ req[j].kind = "generation"
           /\ req[i].ws = req[j].ws
           /\ CompleteIn(delivered[i])
           /\ pc[j] = "load")
          => pc'[j] # "handler"]_vars

C11_Witness ==
  /\ req["b"].kind = "generation"
  /\ CompleteIn(delivered["a"])
  /\ task["a"] = "running"
  /\ pc["b"] = "g_company"

\* C12: after a failure of the extraction or of the structuring stage of an
\* analysis, control is in the except branch or past it, no later stage has
\* run (no structuring call after an extraction failure, no analysis.json, no
\* index sync, no workspace-store request), the only error event emitted
\* carries the failure message, the source file is still there, and no file
\* once written is ever removed or changed.
ExtractionFailed(i) ==
  \/ IF loc[i].exc = <<>> THEN FALSE
     ELSE Head(loc[i].exc) \in {"Fallo en ocr: ", "Fallo en ocr tras varios intentos: "}
  \/ loc[i].exc = <<"El analista no pudo encontrar texto legible en el documento.">>
StructuringFailed(i) ==
  loc[i].exc \in {<<"ReadTimeout">>, <<"Error en Ollama">>, <<"'list' object is not a mapping">>}

C12_FailureStopsStages ==
  /\ [](\A i \in Invs :
          (req[i].kind = "analysis" /\ (ExtractionFailed(i) \/ StructuringFailed(i))) =>
             /\ pc[i] \in {"handler", "ret"}
             /\ ExtractionFailed(i) => calls[i].llm = 0
             /\ calls[i].llm <= 1
             /\ fs[req[i].ws].analysis = None
             /\ calls[i].bids = 0
             /\ calls[i].db = 0
             /\ loc[i].profile = None
             /\ fs[req[i].ws].source = Some(req[i].file)
             /\ task[i] # "raised"
             /\ pc[i] = "handler" => Errors(produced[i]) = {}
             /\ pc[i] = "ret" =>
                  /\ Cardinality(Errors(produced[i])) = 1
                  /\ Last(produced[i]) = Event("error", Some("Coordinator"), None, loc[i].exc))
  /\ [][\A w \in WsIds :
          /\ fs[w].source # None => fs'[w].source = fs[w].source
          /\ fs[w].extraccion # None => fs'[w].extraccion = fs[w].extraccion]_vars

C12_Witness ==
  /\ req["a"].kind = "analysis"
  /\ StructuringFailed("a")
  /\ task["a"] = "returned"
  /\ fs["w1"].source # None
  /\ fs["w1"].extraccion # None
  /\ Last(produced["a"]).status = "error"

\* C20: after its client has disconnected the task is not cancelled, every
\* event it emits is put in the queue at once, it runs on until it is done,
\* and it then has emitted the events, ended the way and left the files of the
\* same analysis read by a client that stayed to the end.
Gone(i) == apc[i] = "gone"

C20_DisconnectLeavesTask ==
  /\ [](Gone("b") =>
          /\ task["b"] = "raised" => taskExc["b"] # <<>>
          /\ delivered["b"] \o queue["b"] = produced["b"]
          /\ (Closed("a") /\ TaskDone("b")) =>
               /\ task["b"] = task["a"]
               /\ produced["b"] = produced["a"]
               /\ fs[req["b"].ws] = fs[req["a"].ws]
               /\ calls["b"] = calls["a"])
  /\ (Gone("b") ~> TaskDone("b"))

C20_Witness ==
  /\ Gone("b")
  /\ Closed("a")
  /\ task["b"] = "returned"
  /\ Len(delivered["b"]) = 1
  /\ Len(produced["b"]) >= 4
  /\ Last(produced["b"]).status = "complete"
  /\ fs["w2"].analysis # None

\* C16: an upsert for an existing id whose value for cif_data, acta_data,
\* prices_data, sources or analysis is null, "", "{}", "[]" or "null" leaves
\* the stored non-empty value of that field as it was.
EmptyJson == {None, Some(""), Some("{}"), Some("[]"), Some("null")}
UpsertStep == Len(log') = Len(log) + 1 /\ Last(log').op = "upsert"

C16_EmptyJsonKeepsStored ==
  [][UpsertStep =>
       LET r == Last(log').req
       IN db[r.id] # None =>
            \A f \in JsonFields :
              (r[f] \in EmptyJson /\ db[r.id][1][f] \notin EmptyJson) =>
                 db'[r.id][1][f] = db[r.id][1][f]]_vars

C16_Witness ==
  /\ Len(log) = 2
  /\ \A k \in 1..2 : log[k].op = "upsert"
  /\ Last(log).existed
  /\ Last(log).req.analysis = Some("{}")
  /\ log[1].req.analysis = Some("v1")
  /\ db["w1"][1].analysis = Some("v1")

\* C17: an upsert for an existing id whose value for a field is null or ""
\* leaves the stored non-empty value of that field as it was, for every field
\* of the record.
EmptyValue == {None, Some("")}

C17_EmptyNeverOverwrites ==
  [][UpsertStep =>
       LET r == Last(log').req
       IN db[r.id] # None =>
            \A f \in Fields :
              (r[f] \in EmptyValue /\ db[r.id][1][f] \notin EmptyValue) =>
                 db'[r.id][1][f] = db[r.id][1][f]]_vars

\* the validations answered so far
Validations == {k \in 1..Len(log) : log[k].op = "validate"}
HasAlta(r) == \E k \in 1..Len(r.inconsistencias) : r.inconsistencias[k].severidad = "alta"

\* C18: the estado of every validation is block exactly when some
\* inconsistency is of severity alta, warning exactly when there are
\* inconsistencies and none is alta, ok exactly when there is none.
C18_EstadoFromSeverities ==
  \A k \in Validations :
    LET r == log[k].resp.data
    IN /\ (r.estado = "block") <=> HasAlta(r)
       /\ (r.estado = "warning") <=> (r.inconsistencias # <<>> /\ ~HasAlta(r))
       /\ (r.estado = "ok") <=> (r.inconsistencias = <<>>)
       /\ r.estado \in {"block", "warning", "ok"}

C18_Witness ==
  \E k \in Validations :
    /\ Len(log[k].resp.data.inconsistencias) = 2
    /\ log[k].resp.data.inconsistencias[1].severidad = "media"
    /\ log[k].resp.data.inconsistencias[2].severidad = "baja"
    /\ log[k].resp.data.estado = "warning"

\* the inconsistencies of a result about the name, and those of severity media
NameItems(r) ==
  {k \in 1..Len(r.inconsistencias) : r.inconsistencias[k].sobre = "razon_social"}
Medias(r) ==
  {k \in 1..Len(r.inconsistencias) : r.inconsistencias[k].severidad = "media"}

\* C19: names that normalize to the same non-empty string, as
\* "ACME S.A. de C.V." and "acme sa de cv" do, get similarity 1 and no name
\* inconsistency; a similarity below 0.85 of two non-empty normalized names
\* gives exactly one inconsistency of severity media, and estado warning when
\* no inconsistency is alta.
C19_NameSimilarity ==
  \A k \in Validations :
    LET r == log[k].resp.data
        c == r.comparacion
        sim == c.similitud_razon_social
        sameName == /\ normalize_name(c.razon_social_cif) # <<>>
                    /\ normalize_name(c.razon_social_cif) = normalize_name(c.razon_social_acta)
        example == c.razon_social_cif = AcmeLong /\ c.razon_social_acta = AcmeShort
    IN /\ (sameName \/ example) =>
            /\ sim # None
            /\ sim[1].num = sim[1].den
            /\ NameItems(r) = {}
       /\ (sim # None /\ sim[1].num * 100 < 85 * sim[1].den) =>
            /\ Cardinality(Medias(r)) = 1
            /\ Medias(r) = NameItems(r)
            /\ ~HasAlta(r) => r.estado = "warning"

C19_Witness ==
  \E k \in Validations :
    /\ log[k].resp.data.comparacion.razon_social_cif = AcmeLong
    /\ log[k].resp.data.comparacion.razon_social_acta = AcmeShort
    /\ log[k].resp.data.comparacion.similitud_razon_social = Some([num |-> 8, den |-> 8])
    /\ log[k].resp.data.estado = "ok"

\* the ingestion calls answered so far, and those that structured the
\* document anew with success
Calls == {k \in 1..Len(log) : log[k].op = "context"}
FreshSuccess(k) == log[k].resp.status = "success" /\ ~log[k].cached
\* the stored result of the call's type, when the call began, can be decoded
HadStored(k) ==
  /\ log[k].stored \notin {None, Some("")}
  /\ json_loads(log[k].stored[1]) # None

\* C13: of two consecutive ingestions of the same type for the same workspace
\* with the same file and force off, the store reachable, the first a
\* successful fresh ingestion, the second makes no OCR request and returns
\* the data the first returned.
C13_SecondCallReusesFirst ==
  \A k \in Calls :
    (/\ (k + 1) \in Calls
     /\ log[k + 1].ws = log[k].ws
     /\ log[k + 1].type = log[k].type
     /\ log[k + 1].file = log[k].file
     /\ ~log[k].force /\ ~log[k + 1].force
     /\ log[k].store = "up" /\ log[k + 1].store = "up"
     /\ FreshSuccess(k))
    => /\ log[k + 1].ocr = 0
       /\ log[k + 1].resp.status = "success"
       /\ log[k + 1].resp.data = log[k].resp.data

\* C14: an ingestion of either type and any kind of upload, made with force
\* off while a structured result of its type is stored and the store is
\* reachable, returns the stored result, makes no OCR and no LLM request, and
\* runs the identity validation.
C14_StoredResultIsReturned ==
  \A k \in Calls :
    (HadStored(k) /\ ~log[k].force /\ log[k].store = "up")
    => /\ log[k].resp.status = "success"
       /\ log[k].resp.data = json_loads(log[k].stored[1])
       /\ log[k].ocr = 0
       /\ log[k].llm = 0
       /\ log[k].validated

\* C15: the response of a cache hit and the response of a fresh ingestion
\* with the same data and the same validation are equal in every field.
C15_CacheHitLooksFresh ==
  \A j, k \in Calls :
    (/\ log[j].cached
     /\ FreshSuccess(k)
     /\ log[j].type = log[k].type
     /\ log[j].resp.data = log[k].resp.data
     /\ log[j].resp.validation = log[k].resp.validation)
    => log[j].resp = log[k].resp

\* ... are equal in status, data and validation and differ in msg, which
\* tells the cache hit from the fresh ingestion (the claim as amended).
C15_CacheHitDiffersInMsg ==
  \A j, k \in Calls :
    (/\ log[j].cached
     /\ FreshSuccess(k)
     /\ log[j].type = log[k].type
     /\ log[j].resp.data = log[k].resp.data
     /\ log[j].resp.validation = log[k].resp.validation)
    => /\ DOMAIN log[j].resp = DOMAIN log[k].resp
       /\ log[j].resp.status = log[k].resp.status
       /\ log[j].resp.msg # log[k].resp.msg

C15_Witness ==
  /\ Len(log) = 2
  /\ log[1].op = "context" /\ log[2].op = "context"
  /\ FreshSuccess(1)
  /\ log[2].cached
  /\ log[2].type = log[1].type
  /\ log[2].resp.data = log[1].resp.data
  /\ log[2].resp.validation = log[1].resp.validation
  /\ log[2].resp.data # Some(EmptyObject)


\* C22: whatever payload the structuring service returns with a success
\* response, the structure-analysis stage does not fail: once the service has
\* answered with status 200, the invocation holds an analysis that has every
\* key of the default schema.
TransportFailed(i) == loc[i].exc \in {<<"ReadTimeout">>, <<"Error en Ollama">>}
C22_StructuringNeverFails ==
  \A i \in Invs :
    (/\ req[i].kind = "analysis"
     /\ calls[i].llm > 0
     /\ task[i] # "raised"
     /\ ~TransportFailed(i)) =>
       /\ loc[i].analysis # None
       /\ DOMAIN Defaults \subseteq DOMAIN loc[i].analysis[1]


\* C23: in an analysis, if the stream of the extraction service holds a line
\* that is no JSON, or ends with an error chunk or otherwise without a complete
\* chunk, or gives empty text, the extraction stage fails: the structuring
\* service is not called, analysis.json is not written and the stream ends with
\* exactly one error event, its last event.  If the stream is read to its end
\* and gives text, the extracted text is the page texts of the complete chunk,
\* in page order, joined by newlines.
C23_ExtractionFailsHard ==
  LET i == "a"
      d == script["b"].resp[1]
      stream == VlmStream(req[i].file, d.pages, d.fail)
      undecodable == d.xfer = "garbled"
      hasComplete == d.fail = 0 /\ (d.xfer = "clean" \/ d.at > Len(stream))
      PageText(k) == IF d.pages[k] = "blank" THEN <<>> ELSE <<"page", ToString(k)>>
      Joined[k \in 0..Len(d.pages)] ==
        IF k = 0 THEN <<>>
        ELSE IF k = 1 THEN PageText(1)
        ELSE Joined[k - 1] \o <<"\n">> \o PageText(k)
      text == Joined[Len(d.pages)]
  IN (script["b"].resp # None /\ pc[i] \notin {"ocr_read", "check_text"}) =>
       IF undecodable \/ ~hasComplete \/ text = <<>>
       THEN /\ ExtractionFailed(i)
            /\ calls[i].llm = 0
            /\ fs[req[i].ws].analysis = None
            /\ Cardinality(Errors(produced[i])) <= 1
            /\ Closed(i) =>
                 /\ Cardinality(Errors(delivered[i])) = 1
                 /\ Last(delivered[i]).status = "error"
                 /\ Cardinality(Terminals(delivered[i])) = 1
       ELSE d.xfer = "clean" =>
              /\ loc[i].ocr_text = text
              /\ ~ExtractionFailed(i)

C23_Witness ==
  /\ script["b"].resp # None
  /\ script["b"].resp[1].fail > 0
  /\ script["b"].resp[1].xfer = "clean"
  /\ Closed("a")
  /\ Last(delivered["a"]).status = "error"
  /\ calls["a"].llm = 0


\* C24: in a generation, every write of a generated document is followed at
\* once (before the next write and before the complete event) by one doc_ready
\* event naming that document, and no doc_ready event is emitted otherwise; so
\* the doc_ready events name the written documents in the order of the writes.
\* Their val lies in 90..100, and when the complete event is emitted it is the
\* last event, its generated_docs are the names of the doc_ready events in the
\* same order, and the last doc_ready event has val 100.
DocReadyEvents(s) == SelectSeq(s, LAMBDA e : e.status = "doc_ready")
DocReadyNames(s) == [k \in 1..Len(DocReadyEvents(s)) |-> DocReadyEvents(s)[k].name[1]]

C24_DocReadyPerDocument ==
  /\ [](\A i \in Invs :
          req[i].kind = "generation" =>
            LET ready == DocReadyEvents(produced[i])
            IN /\ DocReadyNames(produced[i]) = fs[req[i].ws].docs
               /\ \A k \in 1..Len(ready) :
                    /\ ready[k].val # None
                    /\ ready[k].val[1] \in 90..100
                    /\ k > 1 => ready[k - 1].val[1] <= ready[k].val[1]
               /\ CompleteIn(produced[i]) =>
                    /\ Last(produced[i]).status = "complete"
                    /\ Last(produced[i]).docs = Some(DocReadyNames(produced[i]))
                    /\ ready # <<>> => Last(ready).val = Some(100))
  /\ [][\A i \in Invs :
          req[i].kind = "generation" =>
            /\ fs'[req[i].ws].docs # fs[req[i].ws].docs =>
                 /\ Len(fs'[req[i].ws].docs) = Len(fs[req[i].ws].docs) + 1
                 /\ SubSeq(fs'[req[i].ws].docs, 1, Len(fs[req[i].ws].docs)) = fs[req[i].ws].docs
                 /\ Len(produced'[i]) = Len(produced[i]) + 1
                 /\ Last(produced'[i]).status = "doc_ready"
                 /\ Last(produced'[i]).name = Some(Last(fs'[req[i].ws].docs))
                 /\ ~CompleteIn(produced[i])
            /\ DocReadyEvents(produced'[i]) # DocReadyEvents(produced[i]) =>
                 fs'[req[i].ws].docs # fs[req[i].ws].docs]_vars

C24_Witness ==
  /\ req["a"].kind = "generation"
  /\ CompleteIn(produced["a"])
  /\ Len(DocReadyEvents(produced["a"])) >= 2
  /\ Last(produced["a"]).docs = Some(fs["w1"].docs)


\* C25: the stages of an invocation run in a fixed linear order, each entered
\* only from the stage before it and never entered again once left: for an
\* analysis persist-source, extract-text, structure-analysis, write
\* analysis.json, sync-external-index, consolidate-profile, complete; for a
\* generation load-analysis, consolidate-profile, technical generation, economic
\* generation, persist documents, complete.  A failure leaves the order for the
\* except branch and the return, from which no stage is entered.  An analysis
\* calls the structuring service at most once, and a retry of the extraction
\* stays inside the extraction stage.
StageOf(at) ==
  CASE at = "persist" -> 1
    [] at \in {"parse", "ocr_try", "ocr_sleep", "ocr_read", "check_text"} -> 2
    [] at = "llm" -> 3
    [] at = "write_analysis" -> 4
    [] at = "bids" -> 5
    [] at \in {"company", "profile"} -> 6
    [] at = "complete" -> 7
    [] at = "load" -> 11
    [] at \in {"g_company", "g_profile", "g_folder"} -> 12
    [] at = "g_tech" -> 13
    [] at = "g_econ" -> 14
    [] at = "g_write" -> 15
    [] OTHER -> 0
FirstStage(kind) == IF kind = "analysis" THEN 1 ELSE 11
LastStage(kind) == IF kind = "analysis" THEN 7 ELSE 15

C25_StagesInOrder ==
  /\ [][\A i \in Invs :
          pc'[i] # pc[i] =>
            /\ pc[i] = "idle" => StageOf(pc'[i]) = FirstStage(req[i].kind)
            /\ pc[i] = "handler" => pc'[i] = "ret"
            /\ pc[i] # "ret"
            /\ StageOf(pc[i]) > 0 =>
                 \/ StageOf(pc'[i]) \in {StageOf(pc[i]), StageOf(pc[i]) + 1}
                 \/ pc'[i] = "handler"
                 \/ pc'[i] = "ret" /\ StageOf(pc[i]) = LastStage(req[i].kind)
            /\ StageOf(pc'[i]) > 0 =>
                 StageOf(pc'[i]) \in FirstStage(req[i].kind)..LastStage(req[i].kind)]_vars
  /\ [][\A i \in Invs :
          /\ fs'[req[i].ws].source # fs[req[i].ws].source => pc[i] = "persist"
          /\ calls'[i].ocr # calls[i].ocr => StageOf(pc[i]) = 2 /\ StageOf(pc'[i]) \in {0, 2}
          /\ (req[i].kind = "analysis" /\ calls'[i].llm # calls[i].llm) => pc[i] = "llm"
          /\ (CompleteIn(produced'[i]) /\ ~CompleteIn(produced[i])) =>
               /\ StageOf(pc[i]) = LastStage(req[i].kind)
               /\ pc'[i] = "ret"]_vars
  /\ [](\A i \in Invs :
          /\ req[i].kind = "analysis" => calls[i].llm <= 1
          /\ calls[i].ocr <= max_retries)

C25_Witness ==
  /\ req["a"].kind = "analysis"
  /\ calls["a"].ocr = max_retries
  /\ calls["a"].llm = 1
  /\ CompleteIn(produced["a"])
  /\ task["a"] = "returned"


\* C26: when two invocations run at the same time, for different workspaces or
\* for the same one, each has its own channel: what the adapter of an
\* invocation has forwarded, followed by what waits in that invocation's queue,
\* is exactly what that invocation's task has emitted, in the order of
\* emission; an event the adapter adds itself reports the exception of its own
\* task; and each stream holds at most one terminal event, its last event, and
\* exactly one when it has ended.
C26_OwnChannel ==
  \A i \in Invs :
    /\ Forwarded(i) \o queue[i] = produced[i]
    /\ \A k \in 1..Len(delivered[i]) :
         (delivered[i][k].status = "error" /\ delivered[i][k].agent = None) =>
            /\ task[i] = "raised"
            /\ delivered[i][k] = SynthError(taskExc[i])[1]
    /\ Cardinality(Terminals(delivered[i])) <= 1
    /\ \A k \in Terminals(delivered[i]) : k = Len(delivered[i])
    /\ Closed(i) =>
         /\ Cardinality(Terminals(delivered[i])) = 1
         /\ Forwarded(i) = produced[i]

C26_Witness ==
  /\ task["a"] = "running" /\ task["b"] = "running"
  /\ req["b"].ws = "w1"
  /\ Len(delivered["a"]) >= 1 /\ Len(delivered["b"]) >= 1
  /\ queue["a"] # <<>> /\ queue["b"] # <<>>
  /\ delivered["a"] # delivered["b"]


\* C27: a stream of the legacy identity-document endpoints never holds more
\* than one terminal event (complete or error), and a stream that has ended
\* holds exactly one, whatever the extraction service streams and whether or
\* not the structuring call fails.
C27_LegacyOneTerminal ==
  \A i \in Invs :
    req[i].kind \in {"cif", "acta"} =>
      /\ Cardinality(Terminals(delivered[i])) <= 1
      /\ Closed(i) => Cardinality(Terminals(delivered[i])) = 1


\* C28: every event delivered to the consumer by the analysis or the generation
\* pipeline has a status among progress, info, warning, doc_ready, complete and
\* error, and carries the keys agent and msg; the doc_ready events and the
\* error event added by the adapter included.
C28_EventShape ==
  \A i \in Invs : \A k \in 1..Len(delivered[i]) :
    /\ delivered[i][k].status \in
         {"progress", "info", "warning", "doc_ready", "complete", "error"}
    /\ delivered[i][k].agent # None
    /\ delivered[i][k].msg # None


\* C29: an analysis that ends with an error event leaves the analysis.json the
\* workspace held before unchanged; analysis.json changes only in the write
\* step of an analysis whose structuring stage has returned an analysis; and a
\* generation that follows a failed re-analysis loads the earlier analysis.
EndedWithError(i) == Errors(produced[i]) # {} \/ task[i] = "raised"

C29_FailedReanalysisKeepsAnalysis ==
  /\ [](\A i \in Invs :
          (req[i].kind = "analysis" /\ EndedWithError(i)) =>
             /\ fs[req[i].ws].analysis = Some(EarlierAnalysis)
             /\ \A j \in Invs :
                  (req[j].kind = "generation" /\ req[j].ws = req[i].ws
                   /\ pc[j] \notin {"idle", "load"}) =>
                     /\ loc[j].analysis = Some(EarlierAnalysis)
                     /\ loc[j].exc # <<"JSONDecodeError">>)
  /\ [][\A w \in WsIds :
          fs'[w].analysis # fs[w].analysis =>
            \E i \in Invs :
              /\ req[i].kind = "analysis" /\ req[i].ws = w
              /\ pc[i] = "write_analysis"
              /\ loc[i].analysis # None]_vars


\* C30: once analysis.json has been written, a failure of the index-sync call
\* or of the reads of the workspace store during profile consolidation does
\* not abort the analysis: no exception is raised and no error event emitted,
\* the invocation ends with a complete event that carries the analysis written,
\* and when both reads of the store fail (or the second finds nothing) the
\* profile in it is built from the default company data.
DefaultLicitante ==
  [empresa |-> <<"EMPRESA S.A.">>, rfc |-> DefaultRfc, cargo |-> <<"Representante Legal">>]

C30_StoreFailuresTolerated ==
  LET i == "a"
      met == script["b"]
  IN calls[i].bids > 0 =>
       /\ loc[i].exc = <<>>
       /\ pc[i] # "handler"
       /\ task[i] # "raised"
       /\ Errors(produced[i]) = {}
       /\ fs[req[i].ws].analysis = loc[i].analysis
       /\ task[i] = "returned" =>
            /\ Last(produced[i]).status = "complete"
            /\ Last(produced[i]).analysis = loc[i].analysis
            /\ Last(produced[i]).profile # None
            /\ (met.db = Some("fail") /\ met.dbl \in {Some("fail"), Some("none")}) =>
                 Last(produced[i]).profile[1].licitante = DefaultLicitante
       /\ Closed(i) =>
            /\ Last(delivered[i]).status = "complete"
            /\ Errors(delivered[i]) = {}

C30_Witness ==
  /\ Closed("a")
  /\ script["b"].bids = Some("fail")
  /\ script["b"].db = Some("fail")
  /\ script["b"].dbl = Some("fail")
  /\ Last(delivered["a"]).status = "complete"
  /\ Last(delivered["a"]).profile[1].licitante = DefaultLicitante


\* C21: the row of a workspace is removed, or a value it holds for cif_data,
\* acta_data, prices_data, sources, analysis or logo_path is dropped (the field
\* becomes null or empty), only by a delete of that workspace id: not by an
\* upsert of this or another workspace, a bid upsert or a reindex.
DataFields == {"cif_data", "acta_data", "prices_data", "sources", "analysis", "logo_path"}
Dropped(w) ==
  /\ db[w] # None
  /\ \/ db'[w] = None
     \/ \E f \in DataFields :
          /\ db[w][1][f] \notin EmptyValue
          /\ db'[w][1][f] \in EmptyValue

C21_OnlyDeleteRemoves ==
  [][\A w \in WsIds :
       Dropped(w) => (Last(log').op = "delete" /\ Last(log').id = w)]_vars

====
